---- MODULE Spec2Model ----
(***************************************************************************)
(* http-response-collector: the Pub/Sub push endpoint (pubSubHandler), the *)
(* fetch-and-classify pipeline (decodeBase64, isValidURL, fetchURL) and    *)
(* the outcome publisher (publishMessage, publishErrorMessage) of          *)
(* src/main.go, as a state machine.                                        *)
(*                                                                         *)
(* A Go string is a sequence of bytes.  Here a string is a sequence of     *)
(* one-byte characters: a printable ASCII byte is the one-character string *)
(* itself, any other byte b is the token "xHH" (its value in hex).         *)
(***************************************************************************)
EXTENDS Integers, Sequences, FiniteSets, TLC

----------------------------------------------------------------------------
(* Bytes and characters *)

ByteChar ==
  << "x00", "x01", "x02", "x03", "x04", "x05", "x06", "x07", "x08", "x09", "x0A", "x0B", "x0C", "x0D", "x0E", "x0F",
     "x10", "x11", "x12", "x13", "x14", "x15", "x16", "x17", "x18", "x19", "x1A", "x1B", "x1C", "x1D", "x1E", "x1F",
     " ", "!", "\"", "#", "$", "%", "&", "'", "(", ")", "*", "+", ",", "-", ".", "/",
     "0", "1", "2", "3", "4", "5", "6", "7", "8", "9", ":", ";", "<", "=", ">", "?",
     "@", "A", "B", "C", "D", "E", "F", "G", "H", "I", "J", "K", "L", "M", "N", "O",
     "P", "Q", "R", "S", "T", "U", "V", "W", "X", "Y", "Z", "[", "\\", "]", "^", "_",
     "x60", "a", "b", "c", "d", "e", "f", "g", "h", "i", "j", "k", "l", "m", "n", "o",
     "p", "q", "r", "s", "t", "u", "v", "w", "x", "y", "z", "{", "|", "}", "~", "x7F",
     "x80", "x81", "x82", "x83", "x84", "x85", "x86", "x87", "x88", "x89", "x8A", "x8B", "x8C", "x8D", "x8E", "x8F",
     "x90", "x91", "x92", "x93", "x94", "x95", "x96", "x97", "x98", "x99", "x9A", "x9B", "x9C", "x9D", "x9E", "x9F",
     "xA0", "xA1", "xA2", "xA3", "xA4", "xA5", "xA6", "xA7", "xA8", "xA9", "xAA", "xAB", "xAC", "xAD", "xAE", "xAF",
     "xB0", "xB1", "xB2", "xB3", "xB4", "xB5", "xB6", "xB7", "xB8", "xB9", "xBA", "xBB", "xBC", "xBD", "xBE", "xBF",
     "xC0", "xC1", "xC2", "xC3", "xC4", "xC5", "xC6", "xC7", "xC8", "xC9", "xCA", "xCB", "xCC", "xCD", "xCE", "xCF",
     "xD0", "xD1", "xD2", "xD3", "xD4", "xD5", "xD6", "xD7", "xD8", "xD9", "xDA", "xDB", "xDC", "xDD", "xDE", "xDF",
     "xE0", "xE1", "xE2", "xE3", "xE4", "xE5", "xE6", "xE7", "xE8", "xE9", "xEA", "xEB", "xEC", "xED", "xEE", "xEF",
     "xF0", "xF1", "xF2", "xF3", "xF4", "xF5", "xF6", "xF7", "xF8", "xF9", "xFA", "xFB", "xFC", "xFD", "xFE", "xFF" >>

Chars == {ByteChar[k] : k \in 1..256}

\* The byte value of a character.
Ord == [c \in Chars |-> (CHOOSE k \in 1..256 : ByteChar[k] = c) - 1]

\* The character of a byte value.
Chr(b) == ByteChar[b + 1]

Quote == "\""
Backslash == "\\"

IsDigit(c) == c \in {"0", "1", "2", "3", "4", "5", "6", "7", "8", "9"}

\* strings.HasPrefix
HasPrefix(s, prefix) ==
  /\ Len(s) >= Len(prefix)
  /\ SubSeq(s, 1, Len(prefix)) = prefix

\* s[i:i+len(lit)] == lit
MatchAt(s, i, lit) ==
  /\ i + Len(lit) - 1 <= Len(s)
  /\ SubSeq(s, i, i + Len(lit) - 1) = lit

\* ASCII lower-casing of one character / of a string (field-name folding).
LowerChar(c) == IF Ord[c] >= 65 /\ Ord[c] <= 90 THEN Chr(Ord[c] + 32) ELSE c
Lower(s) == [k \in 1..Len(s) |-> LowerChar(s[k])]

----------------------------------------------------------------------------
(* UTF-8, as unicode/utf8 encodes and decodes it *)

IsCont(s, j) == j <= Len(s) /\ Ord[s[j]] >= 128 /\ Ord[s[j]] <= 191
InRange(s, j, lo, hi) == j <= Len(s) /\ Ord[s[j]] >= lo /\ Ord[s[j]] <= hi

\* utf8.DecodeRune at s[j]: the size of the well-formed sequence starting at
\* j, or 0 when the bytes at j are not well-formed UTF-8.
Utf8Size(s, j) ==
  LET b == Ord[s[j]] IN
  IF b < 128 THEN 1
  ELSE IF b >= 194 /\ b <= 223 THEN (IF IsCont(s, j + 1) THEN 2 ELSE 0)
  ELSE IF b = 224 THEN (IF InRange(s, j + 1, 160, 191) /\ IsCont(s, j + 2) THEN 3 ELSE 0)
  ELSE IF b = 237 THEN (IF InRange(s, j + 1, 128, 159) /\ IsCont(s, j + 2) THEN 3 ELSE 0)
  ELSE IF b >= 225 /\ b <= 239 THEN (IF IsCont(s, j + 1) /\ IsCont(s, j + 2) THEN 3 ELSE 0)
  ELSE IF b = 240 THEN (IF InRange(s, j + 1, 144, 191) /\ IsCont(s, j + 2) /\ IsCont(s, j + 3) THEN 4 ELSE 0)
  ELSE IF b = 244 THEN (IF InRange(s, j + 1, 128, 143) /\ IsCont(s, j + 2) /\ IsCont(s, j + 3) THEN 4 ELSE 0)
  ELSE IF b >= 241 /\ b <= 243 THEN (IF IsCont(s, j + 1) /\ IsCont(s, j + 2) /\ IsCont(s, j + 3) THEN 4 ELSE 0)
  ELSE 0

\* utf8.EncodeRune
EncodeRune(r) ==
  IF r < 128 THEN << Chr(r) >>
  ELSE IF r < 2048 THEN << Chr(192 + (r \div 64)), Chr(128 + (r % 64)) >>
  ELSE IF r < 65536 THEN
    << Chr(224 + (r \div 4096)), Chr(128 + ((r \div 64) % 64)), Chr(128 + (r % 64)) >>
  ELSE
    << Chr(240 + (r \div 262144)), Chr(128 + ((r \div 4096) % 64)),
       Chr(128 + ((r \div 64) % 64)), Chr(128 + (r % 64)) >>

\* U+FFFD, unicode.ReplacementChar
ReplacementChar == << "xEF", "xBF", "xBD" >>

\* What encoding/json makes of a string's bytes, when it decodes a JSON
\* string and when it encodes a Go string: well-formed UTF-8 is kept, every
\* byte that is not part of a well-formed sequence becomes U+FFFD.
\* One turn of the loop over the runes of s: st.j is the read position,
\* st.acc what was written so far.
CoerceStep(s, st) ==
  IF st.j > Len(s) THEN st
  ELSE LET n == Utf8Size(s, st.j) IN
       IF n = 0 THEN [st EXCEPT !.j = @ + 1, !.acc = @ \o ReplacementChar]
       ELSE [st EXCEPT !.j = @ + n, !.acc = @ \o SubSeq(s, st.j, st.j + n - 1)]

\* n turns of the loop from st: the first half of them, then from the state
\* mid they end in, the rest.  (mid is the bound variable of a set
\* constructor, which makes it one value, computed once.)
RECURSIVE CoerceRun(_, _, _)
CoerceRun(s, st, n) ==
  IF n <= 1 THEN CoerceStep(s, st)
  ELSE CHOOSE end \in {CoerceRun(s, mid, n - (n \div 2)) : mid \in {CoerceRun(s, st, n \div 2)}} : TRUE

CoerceUTF8(s) == CoerceRun(s, [j |-> 1, acc |-> << >>], Len(s)).acc

----------------------------------------------------------------------------
(* encoding/json: the scanner (validity) and the decoder (values) *)

IsSpace(c) == c \in {" ", "x09", "x0A", "x0D"}

\* The first position from i on (i <= Len(s) + 1) that holds no white space /
\* no digit; Len(s) + 1 when there is none.
SkipWS(s, i) ==
  CHOOSE j \in i..(Len(s) + 1) :
    /\ \A k \in i..(j - 1) : IsSpace(s[k])
    /\ j = Len(s) + 1 \/ ~IsSpace(s[j])

SkipDigits(s, i) ==
  CHOOSE j \in i..(Len(s) + 1) :
    /\ \A k \in i..(j - 1) : IsDigit(s[k])
    /\ j = Len(s) + 1 \/ ~IsDigit(s[j])

\* A JSON value as the decoder sees it: t is its kind, s the text of a
\* string, m the members of an object in input order.
JNull == [t |-> "null", s |-> << >>, m |-> << >>]
JBool == [t |-> "bool", s |-> << >>, m |-> << >>]
JNum == [t |-> "num", s |-> << >>, m |-> << >>]
JArr == [t |-> "arr", s |-> << >>, m |-> << >>]
JStr(text) == [t |-> "str", s |-> text, m |-> << >>]
JObj(members) == [t |-> "obj", s |-> << >>, m |-> members]

ParseFail == [ok |-> FALSE, next |-> 0, val |-> JNull]
ParseOk(next, val) == [ok |-> TRUE, next |-> next, val |-> val]

\* The end of the number starting at s[i], or 0 when it is no JSON number.
ScanNumber(s, i) ==
  LET a == IF s[i] = "-" THEN i + 1 ELSE i
      intEnd == IF a > Len(s) THEN 0
                ELSE IF s[a] = "0" THEN a + 1
                ELSE IF IsDigit(s[a]) THEN SkipDigits(s, a + 1)
                ELSE 0
      fracEnd == IF intEnd = 0 THEN 0
                 ELSE IF intEnd <= Len(s) /\ s[intEnd] = "."
                   THEN (IF intEnd + 1 <= Len(s) /\ IsDigit(s[intEnd + 1])
                           THEN SkipDigits(s, intEnd + 2) ELSE 0)
                 ELSE intEnd
      signEnd == IF fracEnd # 0 /\ fracEnd + 1 <= Len(s) /\ s[fracEnd + 1] \in {"+", "-"}
                   THEN fracEnd + 2 ELSE fracEnd + 1
  IN IF fracEnd = 0 THEN 0
     ELSE IF fracEnd <= Len(s) /\ s[fracEnd] \in {"e", "E"}
       THEN (IF signEnd <= Len(s) /\ IsDigit(s[signEnd])
               THEN SkipDigits(s, signEnd + 1) ELSE 0)
     ELSE fracEnd

HexVal(c) ==
  IF IsDigit(c) THEN Ord[c] - 48
  ELSE IF c \in {"a", "b", "c", "d", "e", "f"} THEN Ord[c] - 87
  ELSE IF c \in {"A", "B", "C", "D", "E", "F"} THEN Ord[c] - 55
  ELSE -1

\* Whether s[j..j+5] is \uXXXX, and its value (getu4).
IsU4(s, j) ==
  /\ j + 5 <= Len(s)
  /\ s[j] = Backslash
  /\ s[j + 1] = "u"
  /\ \A k \in 2..5 : HexVal(s[j + k]) >= 0
GetU4(s, j) ==
  4096 * HexVal(s[j + 2]) + 256 * HexVal(s[j + 3]) + 16 * HexVal(s[j + 4]) + HexVal(s[j + 5])

\* The byte a one-letter escape stands for (unquote).
SimpleEscape ==
  [e \in {Quote, Backslash, "/", "b", "f", "n", "r", "t"} |->
     CASE e = Quote -> Quote
       [] e = Backslash -> Backslash
       [] e = "/" -> "/"
       [] e = "b" -> "x08"
       [] e = "f" -> "x0C"
       [] e = "n" -> "x0A"
       [] e = "r" -> "x0D"
       [] e = "t" -> "x09"]

\* One turn of the loop over a string literal's bytes (the opening quote is
\* behind st.j), unquoting into st.acc.  Bytes below 0x20 and unknown escapes
\* are syntax errors; bytes from 0x80 are not checked by the scanner and are
\* coerced when the value is built.
ScanStringStep(s, st) ==
  IF st.done THEN st
  ELSE IF st.j > Len(s) THEN [st EXCEPT !.ok = FALSE, !.done = TRUE]
  ELSE LET j == st.j
           c == s[j]
       IN
    IF c = Quote THEN [st EXCEPT !.j = j + 1, !.done = TRUE]
    ELSE IF c = Backslash THEN
      IF j + 1 > Len(s) THEN [st EXCEPT !.ok = FALSE, !.done = TRUE]
      ELSE IF s[j + 1] \in DOMAIN SimpleEscape
        THEN [st EXCEPT !.j = j + 2, !.acc = Append(@, SimpleEscape[s[j + 1]])]
      ELSE IF IsU4(s, j) THEN
        LET r == GetU4(s, j) IN
        IF r >= 55296 /\ r < 57344 THEN
          \* a surrogate: a valid pair is one rune, anything else U+FFFD
          IF r < 56320 /\ IsU4(s, j + 6) /\ GetU4(s, j + 6) >= 56320 /\ GetU4(s, j + 6) < 57344
            THEN [st EXCEPT !.j = j + 12,
                            !.acc = @ \o EncodeRune(65536 + (r - 55296) * 1024 + (GetU4(s, j + 6) - 56320))]
            ELSE [st EXCEPT !.j = j + 6, !.acc = @ \o ReplacementChar]
        ELSE [st EXCEPT !.j = j + 6, !.acc = @ \o EncodeRune(r)]
      ELSE [st EXCEPT !.ok = FALSE, !.done = TRUE]
    ELSE IF Ord[c] < 32 THEN [st EXCEPT !.ok = FALSE, !.done = TRUE]
    ELSE [st EXCEPT !.j = j + 1, !.acc = Append(@, c)]

\* n turns of the loop from st.
RECURSIVE ScanStringRun(_, _, _)
ScanStringRun(s, st, n) ==
  IF n <= 1 THEN ScanStringStep(s, st)
  ELSE CHOOSE end \in {ScanStringRun(s, mid, n - (n \div 2)) : mid \in {ScanStringRun(s, st, n \div 2)}} : TRUE

\* What the loop read when it stopped in st.
ScanStringResult(st) ==
  IF st.done /\ st.ok THEN ParseOk(st.j, JStr(CoerceUTF8(st.acc))) ELSE ParseFail

\* The string literal whose opening quote is at s[j-1].
ScanString(s, j) ==
  CHOOSE r \in {ScanStringResult(st) :
                  st \in {ScanStringRun(s, [j |-> j, acc |-> << >>, ok |-> TRUE, done |-> FALSE], Len(s) + 1)}} : TRUE

NumberResult(e) == IF e = 0 THEN ParseFail ELSE ParseOk(e, JNum)

\* The value starting at s[i] that is no object and no array.
ParseScalar(s, i) ==
  LET c == s[i] IN
  IF c = Quote THEN ScanString(s, i + 1)
  ELSE IF c = "t" THEN
    (IF MatchAt(s, i, << "t", "r", "u", "e" >>) THEN ParseOk(i + 4, JBool) ELSE ParseFail)
  ELSE IF c = "f" THEN
    (IF MatchAt(s, i, << "f", "a", "l", "s", "e" >>) THEN ParseOk(i + 5, JBool) ELSE ParseFail)
  ELSE IF c = "n" THEN
    (IF MatchAt(s, i, << "n", "u", "l", "l" >>) THEN ParseOk(i + 4, JNull) ELSE ParseFail)
  ELSE IF c = "-" \/ IsDigit(c) THEN
    NumberResult(ScanNumber(s, i))
  ELSE ParseFail

\* The reader's state: j the read position, stack the objects and arrays
\* open at j (innermost last; m the members read so far, key the key whose
\* value is being read), phase what may come next, val the top-level value.
ParseStart ==
  [j |-> 1, stack |-> << >>, phase |-> "value", val |-> JNull, ok |-> TRUE, done |-> FALSE]

ParseStop(st) == [st EXCEPT !.ok = FALSE, !.done = TRUE]

Frame(kind) == [kind |-> kind, m |-> << >>, key |-> << >>]

\* Value v ended before position next: it is the top-level value, or the next
\* member or element of the innermost open container.
Complete(st, next, v) ==
  IF st.stack = << >> THEN [st EXCEPT !.j = next, !.phase = "end", !.val = v]
  ELSE LET d == Len(st.stack) IN
       [st EXCEPT !.j = next, !.phase = "comma",
                  !.stack[d].m = IF st.stack[d].kind = "obj"
                                   THEN Append(@, [k |-> st.stack[d].key, v |-> v])
                                   ELSE @]

\* The value an open container is once it ends.
FrameValue(top) == IF top.kind = "obj" THEN JObj(top.m) ELSE JArr

\* The innermost open container ended before position next.
Close(st, next) ==
  Complete([st EXCEPT !.stack = SubSeq(@, 1, Len(@) - 1)], next, FrameValue(st.stack[Len(st.stack)]))

\* Scalar value r was read, or r is a syntax error.
CompleteScalar(st, r) ==
  IF r.ok THEN Complete(st, r.next, r.val) ELSE ParseStop(st)

\* Key r of the innermost open object was read, or r is a syntax error.
SetKey(st, r) ==
  IF r.ok THEN [st EXCEPT !.j = r.next, !.stack[Len(st.stack)].key = r.val.s, !.phase = "colon"]
  ELSE ParseStop(st)

\* The deepest nesting of objects and arrays the scanner of encoding/json
\* reads: opening one more is the syntax error "exceeded max depth".
maxNestingDepth == 10000

\* The token at s[j], the first position past white space.  An object or an
\* array is opened only while no more than maxNestingDepth are open with it.
ReadToken(s, st, j) ==
  IF st.phase = "end" THEN (IF j > Len(s) THEN [st EXCEPT !.j = j, !.done = TRUE] ELSE ParseStop(st))
  ELSE IF j > Len(s) THEN ParseStop(st)
  ELSE IF st.phase \in {"value", "first"} THEN
    IF s[j] \in {"{", "["} /\ Len(st.stack) + 1 > maxNestingDepth THEN ParseStop(st)
    ELSE IF s[j] = "{" THEN [st EXCEPT !.j = j + 1, !.stack = Append(@, Frame("obj")), !.phase = "firstKey"]
    ELSE IF s[j] = "[" THEN [st EXCEPT !.j = j + 1, !.stack = Append(@, Frame("arr")), !.phase = "first"]
    ELSE IF s[j] = "]" /\ st.phase = "first" THEN Close(st, j + 1)
    ELSE CompleteScalar(st, ParseScalar(s, j))
  ELSE IF st.phase \in {"key", "firstKey"} THEN
    IF s[j] = "}" /\ st.phase = "firstKey" THEN Close(st, j + 1)
    ELSE IF s[j] = Quote THEN SetKey(st, ScanString(s, j + 1))
    ELSE ParseStop(st)
  ELSE IF st.phase = "colon" THEN
    (IF s[j] = ":" THEN [st EXCEPT !.j = j + 1, !.phase = "value"] ELSE ParseStop(st))
  ELSE \* "comma": after a member or an element
    IF s[j] = ","
      THEN [st EXCEPT !.j = j + 1,
                      !.phase = IF st.stack[Len(st.stack)].kind = "obj" THEN "key" ELSE "value"]
    ELSE IF \/ s[j] = "}" /\ st.stack[Len(st.stack)].kind = "obj"
            \/ s[j] = "]" /\ st.stack[Len(st.stack)].kind = "arr"
      THEN Close(st, j + 1)
    ELSE ParseStop(st)

\* One turn of the reader: skip white space, read one token.
ParseStep(s, st) == IF st.done THEN st ELSE ReadToken(s, st, SkipWS(s, st.j))

\* n turns of the reader from st.
RECURSIVE ParseRun(_, _, _)
ParseRun(s, st, n) ==
  IF n <= 1 THEN ParseStep(s, st)
  ELSE CHOOSE end \in {ParseRun(s, mid, n - (n \div 2)) : mid \in {ParseRun(s, st, n \div 2)}} : TRUE

\* The whole text as one JSON value: ok is json.Valid(text).
ParseResult(st) == IF st.done /\ st.ok THEN ParseOk(st.j, st.val) ELSE ParseFail

ParseJSON(text) ==
  CHOOSE r \in {ParseResult(st) : st \in {ParseRun(text, ParseStart, Len(text) + 2)}} : TRUE

\* json.Valid
Valid(text) == ParseJSON(text).ok

\* The name a JSON object key is matched to a struct field under: an exact
\* match, else a match under case folding.  The struct fields here are ASCII,
\* so folding is ASCII lower-casing plus the two non-ASCII letters that fold
\* onto ASCII ones: U+017F (long s) and U+212A (Kelvin sign).
FoldStep(s, st) ==
  IF st.j > Len(s) THEN st
  ELSE IF MatchAt(s, st.j, << "xC5", "xBF" >>) THEN [st EXCEPT !.j = @ + 2, !.acc = Append(@, "s")]
  ELSE IF MatchAt(s, st.j, << "xE2", "x84", "xAA" >>) THEN [st EXCEPT !.j = @ + 3, !.acc = Append(@, "k")]
  ELSE [st EXCEPT !.j = @ + 1, !.acc = Append(@, LowerChar(s[st.j]))]

\* n turns of the folding loop from st.
RECURSIVE FoldRun(_, _, _)
FoldRun(s, st, n) ==
  IF n <= 1 THEN FoldStep(s, st)
  ELSE CHOOSE end \in {FoldRun(s, mid, n - (n \div 2)) : mid \in {FoldRun(s, st, n \div 2)}} : TRUE

FoldName(s) == FoldRun(s, [j |-> 1, acc |-> << >>], Len(s)).acc

\* The members of object value v whose key names struct field `field`.
FieldIndexes(v, field) == {k \in 1..Len(v.m) : FoldName(v.m[k].k) = field}

\* The decoder stores a JSON value into a Go string only if it is a string;
\* null leaves the field alone; anything else is an UnmarshalTypeError.
StringFieldErr(v) == v.t \notin {"str", "null"}

\* ... and into a map[string]string only if it is an object of strings.
MapFieldErr(v) ==
  \/ v.t \notin {"obj", "null"}
  \/ v.t = "obj" /\ \E k \in 1..Len(v.m) : StringFieldErr(v.m[k].v)

\* The greatest index of a non-empty set of indexes.
LastOf(I) == CHOOSE k \in I : \A j \in I : j <= k

\* The string stored in a string field: that of the last string member that
\* names it.
LastString(v, field) ==
  IF \A k \in FieldIndexes(v, field) : v.m[k].v.t # "str" THEN << >>
  ELSE v.m[LastOf({k \in FieldIndexes(v, field) : v.m[k].v.t = "str"})].v.s

F_message == << "m", "e", "s", "s", "a", "g", "e" >>
F_data == << "d", "a", "t", "a" >>
F_attributes == << "a", "t", "t", "r", "i", "b", "u", "t", "e", "s" >>
F_messageId == << "m", "e", "s", "s", "a", "g", "e", "i", "d" >>
F_publishTime == << "p", "u", "b", "l", "i", "s", "h", "t", "i", "m", "e" >>
F_subscription == << "s", "u", "b", "s", "c", "r", "i", "p", "t", "i", "o", "n" >>
F_url == << "u", "r", "l" >>

\* The type errors of storing v into PubSubMessage.Message: a struct takes
\* an object whose known members fit.
MessageStructErr(v) ==
  \/ v.t \notin {"obj", "null"}
  \/ /\ v.t = "obj"
     /\ \/ \E k \in FieldIndexes(v, F_data) : StringFieldErr(v.m[k].v)
        \/ \E k \in FieldIndexes(v, F_messageId) : StringFieldErr(v.m[k].v)
        \/ \E k \in FieldIndexes(v, F_publishTime) : StringFieldErr(v.m[k].v)
        \/ \E k \in FieldIndexes(v, F_attributes) : MapFieldErr(v.m[k].v)

\* Whether member v, stored into msg.Message, sets msg.Message.Data.
SetsData(v) == v.t = "obj" /\ \E j \in FieldIndexes(v, F_data) : v.m[j].v.t = "str"

\* msg.Message.Data after object v was stored into msg: a repeated "message"
\* object is stored into the same struct, so the last string "data" of all
\* wins.
StoredData(v) ==
  IF \A k \in FieldIndexes(v, F_message) : ~SetsData(v.m[k].v) THEN << >>
  ELSE LastString(v.m[LastOf({k \in FieldIndexes(v, F_message) : SetsData(v.m[k].v)})].v, F_data)

\* The PubSubMessage the decoder makes of parsed text p: err, and the one
\* field the handler reads, msg.Message.Data.
DecodePubSubMessage(p) ==
  IF ~p.ok THEN [err |-> TRUE, Data |-> << >>]
  ELSE IF p.val.t = "null" THEN [err |-> FALSE, Data |-> << >>]
  ELSE IF p.val.t # "obj" THEN [err |-> TRUE, Data |-> << >>]
  ELSE [err |-> \/ \E k \in FieldIndexes(p.val, F_message) : MessageStructErr(p.val.m[k].v)
                \/ \E k \in FieldIndexes(p.val, F_subscription) : StringFieldErr(p.val.m[k].v),
        Data |-> StoredData(p.val)]

\* json.Unmarshal(body, &msg) for msg a PubSubMessage.
UnmarshalPubSubMessage(body) ==
  CHOOSE r \in {DecodePubSubMessage(p) : p \in {ParseJSON(body)}} : TRUE

\* The InputPayload the decoder makes of parsed text p.
DecodeInputPayload(p) ==
  IF ~p.ok THEN [err |-> TRUE, URL |-> << >>]
  ELSE IF p.val.t = "null" THEN [err |-> FALSE, URL |-> << >>]
  ELSE IF p.val.t # "obj" THEN [err |-> TRUE, URL |-> << >>]
  ELSE [err |-> \E k \in FieldIndexes(p.val, F_url) : StringFieldErr(p.val.m[k].v),
        URL |-> LastString(p.val, F_url)]

\* json.Unmarshal([]byte(data), &input) for input an InputPayload.
UnmarshalInputPayload(data) ==
  CHOOSE r \in {DecodeInputPayload(p) : p \in {ParseJSON(data)}} : TRUE

----------------------------------------------------------------------------
(* encoding/base64: StdEncoding.DecodeString *)

\* The 6-bit value of a character of the standard alphabet, or -1.
B64Value(c) ==
  LET b == Ord[c] IN
  IF b >= 65 /\ b <= 90 THEN b - 65
  ELSE IF b >= 97 /\ b <= 122 THEN b - 71
  ELSE IF b >= 48 /\ b <= 57 THEN b + 4
  ELSE IF c = "+" THEN 62
  ELSE IF c = "/" THEN 63
  ELSE -1

NotNewline(c) == c \notin {"x0A", "x0D"}

\* The bytes of the 4-character quantum at t[q..q+3]; "=" counts as zero bits
\* and shortens the output.
QuantumBytes(t, q) ==
  LET v(k) == IF t[q + k] = "=" THEN 0 ELSE B64Value(t[q + k])
      val == 262144 * v(0) + 4096 * v(1) + 64 * v(2) + v(3)
      all == << Chr(val \div 65536), Chr((val \div 256) % 256), Chr(val % 256) >>
  IN IF t[q + 2] = "=" THEN SubSeq(all, 1, 1)
     ELSE IF t[q + 3] = "=" THEN SubSeq(all, 1, 2)
     ELSE all

\* The bytes of quanta number lo to hi of t, in order.
RECURSIVE DecodeQuanta(_, _, _)
DecodeQuanta(t, lo, hi) ==
  IF lo > hi THEN << >>
  ELSE IF lo = hi THEN QuantumBytes(t, 4 * lo - 3)
  ELSE LET mid == (lo + hi) \div 2
       IN DecodeQuanta(t, lo, mid) \o DecodeQuanta(t, mid + 1, hi)

\* decodeBase64: "\r" and "\n" are skipped; what is left must be whole
\* quanta of alphabet characters, with "=" padding only to fill the last one.
decodeBase64(encoded) ==
  LET t == SelectSeq(encoded, NotNewline)
      n == Len(t)
      wellFormed ==
        /\ n % 4 = 0
        /\ \A k \in 1..n :
             \/ B64Value(t[k]) >= 0
             \/ t[k] = "=" /\ k = n
             \/ t[k] = "=" /\ k = n - 1 /\ t[n] = "="
  IN IF wellFormed THEN [err |-> FALSE, data |-> DecodeQuanta(t, 1, n \div 4)]
     ELSE [err |-> TRUE, data |-> << >>]

----------------------------------------------------------------------------
(* encoding/json: the encoder *)

HexDigits == << "0", "1", "2", "3", "4", "5", "6", "7", "8", "9", "a", "b", "c", "d", "e", "f" >>

\* A byte below 0x80 as the encoder writes it inside a string literal (HTML
\* escaping is on by default).
EscapeByte(c) ==
  LET b == Ord[c] IN
  IF c \in {Quote, Backslash} THEN << Backslash, c >>
  ELSE IF c = "x08" THEN << Backslash, "b" >>
  ELSE IF c = "x0C" THEN << Backslash, "f" >>
  ELSE IF c = "x0A" THEN << Backslash, "n" >>
  ELSE IF c = "x0D" THEN << Backslash, "r" >>
  ELSE IF c = "x09" THEN << Backslash, "t" >>
  ELSE IF b < 32 \/ c \in {"<", ">", "&"}
    THEN << Backslash, "u", "0", "0", HexDigits[(b \div 16) + 1], HexDigits[(b % 16) + 1] >>
  ELSE << c >>

\* One turn of the encoder's loop over the runes of s.
EscapeStep(s, st) ==
  LET j == st.j IN
  IF j > Len(s) THEN st
  ELSE IF Ord[s[j]] < 128 THEN [st EXCEPT !.j = j + 1, !.acc = @ \o EscapeByte(s[j])]
  ELSE LET n == Utf8Size(s, j) IN
    IF n = 0 THEN [st EXCEPT !.j = j + 1, !.acc = @ \o << Backslash, "u", "f", "f", "f", "d" >>]
    ELSE IF MatchAt(s, j, << "xE2", "x80", "xA8" >>)
      THEN [st EXCEPT !.j = j + 3, !.acc = @ \o << Backslash, "u", "2", "0", "2", "8" >>]
    ELSE IF MatchAt(s, j, << "xE2", "x80", "xA9" >>)
      THEN [st EXCEPT !.j = j + 3, !.acc = @ \o << Backslash, "u", "2", "0", "2", "9" >>]
    ELSE [st EXCEPT !.j = j + n, !.acc = @ \o SubSeq(s, j, j + n - 1)]

\* n turns of the loop from st.
RECURSIVE EscapeRun(_, _, _)
EscapeRun(s, st, n) ==
  IF n <= 1 THEN EscapeStep(s, st)
  ELSE CHOOSE end \in {EscapeRun(s, mid, n - (n \div 2)) : mid \in {EscapeRun(s, st, n \div 2)}} : TRUE

\* A Go string as a JSON string literal.
EncodeString(s) == EscapeRun(s, [j |-> 1, acc |-> << Quote >>], Len(s)).acc \o << Quote >>

\* Byte-wise order of strings, the order the encoder writes map keys in.
StrLess(a, b) ==
  \E k \in 1..(Len(a) + 1) :
    /\ k <= Len(b)
    /\ SubSeq(a, 1, k - 1) = SubSeq(b, 1, k - 1)
    /\ (k = Len(a) + 1 \/ Ord[a[k]] < Ord[b[k]])

RECURSIVE SortedKeys(_)
SortedKeys(S) ==
  IF S = {} THEN << >>
  ELSE LET least == CHOOSE a \in S : \A b \in S \ {a} : StrLess(a, b)
       IN << least >> \o SortedKeys(S \ {least})

RECURSIVE EncodeMembers(_, _, _)
EncodeMembers(h, keys, k) ==
  IF k > Len(keys) THEN << >>
  ELSE (IF k > 1 THEN << "," >> ELSE << >>)
       \o EncodeString(keys[k]) \o << ":" >> \o EncodeString(h[keys[k]])
       \o EncodeMembers(h, keys, k + 1)

\* json.Marshal of a map[string]string: an object, keys sorted.
MarshalStringMap(h) ==
  << "{" >> \o EncodeMembers(h, SortedKeys(DOMAIN h), 1) \o << "}" >>

----------------------------------------------------------------------------
(* The URL *)

P_http == << "h", "t", "t", "p", ":", "/", "/" >>
P_https == << "h", "t", "t", "p", "s", ":", "/", "/" >>

\* A check for any scheme at all: "://" somewhere in the URL.
HasScheme(url) == \E k \in 1..Len(url) : MatchAt(url, k, << ":", "/", "/" >>)

\* isValidURL: a prefix check, nothing more.
isValidURL(url) == HasPrefix(url, P_http) \/ HasPrefix(url, P_https)

\* The authority of a URL that passed isValidURL: what follows "//" up to
\* the first "/", "?" or "#".
AuthorityEnd(url, j) ==
  CHOOSE e \in j..(Len(url) + 1) :
    /\ \A k \in j..(e - 1) : url[k] \notin {"/", "?", "#"}
    /\ e = Len(url) + 1 \/ url[e] \in {"/", "?", "#"}

Host(url) ==
  LET from == IF HasPrefix(url, P_https) THEN Len(P_https) + 1 ELSE Len(P_http) + 1
  IN SubSeq(url, from, AuthorityEnd(url, from) - 1)

\* http.NewRequest("GET", url, nil) fails when url.Parse does.  url.Parse
\* cuts the URL at its first "#" into a head and a fragment, and the head at
\* its first "?" into authority-and-path and a query it does not look into.
\* For a URL with an http(s) prefix and an authority without userinfo,
\* port, "%" or "[", it fails when the head holds an ASCII control byte,
\* when the host holds a character a host may not, or when a "%" of the
\* path or of the fragment is not followed by two hex digits.
NewRequestErr(url) ==
  LET Cut(s, c) == IF \E k \in 1..Len(s) : s[k] = c
                     THEN CHOOSE k \in 1..Len(s) : s[k] = c /\ \A m \in 1..(k - 1) : s[m] # c
                     ELSE Len(s) + 1
      head == SubSeq(url, 1, Cut(url, "#") - 1)
      frag == SubSeq(url, Cut(url, "#") + 1, Len(url))
      rest == SubSeq(head, 1, Cut(head, "?") - 1)
      pre == IF HasPrefix(url, P_https) THEN Len(P_https) ELSE Len(P_http)
      path == SubSeq(rest, pre + Len(Host(url)) + 1, Len(rest))
      BadEscape(s) == \E k \in 1..Len(s) :
                        /\ s[k] = "%"
                        /\ ~(k + 2 <= Len(s) /\ HexVal(s[k + 1]) >= 0 /\ HexVal(s[k + 2]) >= 0)
  IN \/ \E k \in 1..Len(head) : Ord[head[k]] < 32 \/ Ord[head[k]] = 127
     \/ \E k \in 1..Len(Host(url)) : Host(url)[k] \in {" ", Backslash, "^", "{", "}", "|", "x60"}
     \/ BadEscape(path)
     \/ BadEscape(frag)

----------------------------------------------------------------------------
(* OutputPayload and its JSON form *)

\* The zero OutputPayload.  RequestTime is the instant read from the clock
\* (0: never set, the empty string of the Go field).
ZeroPayload ==
  [URL |-> << >>, Error |-> << >>, Headers |-> << >>, ResponseBody |-> << >>,
   ResponseJson |-> << >>, ResponseTime |-> 0, RequestTime |-> 0, StatusCode |-> 0]

\* The keys json.Marshal writes for an OutputPayload, in field order: the
\* four ",omitempty" string fields only when not empty, the rest always.
PayloadKeys(p) ==
  << "url" >>
  \o (IF p.Error # << >> THEN << "error" >> ELSE << >>)
  \o (IF p.Headers # << >> THEN << "headers" >> ELSE << >>)
  \o (IF p.ResponseBody # << >> THEN << "responseBody" >> ELSE << >>)
  \o (IF p.ResponseJson # << >> THEN << "responseJson" >> ELSE << >>)
  \o << "responseTime", "requestTime", "statusCode" >>

\* json.Marshal(message) for an OutputPayload, as the JSON object a reader
\* of the text gets: the keys present, and under each the value written
\* (strings coerced to valid UTF-8).  A struct of strings and integers
\* cannot fail to marshal, so err is always FALSE.
MarshalPayload(p) ==
  [err |-> FALSE,
   keys |-> PayloadKeys(p),
   val |-> [p EXCEPT !.URL = CoerceUTF8(p.URL),
                     !.Error = CoerceUTF8(p.Error),
                     !.Headers = CoerceUTF8(p.Headers),
                     !.ResponseBody = CoerceUTF8(p.ResponseBody),
                     !.ResponseJson = CoerceUTF8(p.ResponseJson)]]

\* No JSON: the json of a log line that carries none.
NoJSON == [err |-> FALSE, keys |-> << >>, val |-> ZeroPayload]

\* The error strings of the handler.
E_method == << "I", "n", "v", "a", "l", "i", "d", " ", "r", "e", "q", "u", "e", "s", "t", " ", "m", "e", "t", "h", "o", "d" >>
E_body == << "C", "a", "n", "n", "o", "t", " ", "r", "e", "a", "d", " ", "b", "o", "d", "y" >>
E_envelope == << "E", "r", "r", "o", "r", " ", "u", "n", "m", "a", "r", "s", "h", "a", "l", "l", "i", "n", "g", " ", "J", "S", "O", "N" >>
E_decode == << "E", "r", "r", "o", "r", " ", "d", "e", "c", "o", "d", "i", "n", "g", " ", "d", "a", "t", "a" >>
E_input == << "E", "r", "r", "o", "r", " ", "u", "n", "m", "a", "r", "s", "h", "a", "l", "l", "i", "n", "g", " ", "i", "n", "p", "u", "t", " ", "J", "S", "O", "N" >>
E_url == << "I", "n", "v", "a", "l", "i", "d", " ", "U", "R", "L" >>
E_fetch == << "E", "r", "r", "o", "r", " ", "f", "e", "t", "c", "h", "i", "n", "g", " ", "U", "R", "L" >>
E_marshal == << "E", "r", "r", "o", "r", " ", "m", "a", "r", "s", "h", "a", "l", "l", "i", "n", "g", " ", "o", "u", "t", "p", "u", "t", " ", "J", "S", "O", "N" >>

\* The errorPayload publishErrorMessage builds at instant t.
ErrorPayload(errorMsg, url, t) ==
  [ZeroPayload EXCEPT !.URL = url, !.Error = errorMsg, !.RequestTime = t]

\* strings.Join(values, ", ")
RECURSIVE Join(_, _)
Join(values, k) ==
  IF k > Len(values) THEN << >>
  ELSE (IF k > 1 THEN << ",", " " >> ELSE << >>) \o values[k] \o Join(values, k + 1)

\* A map of each header's first value, as resp.Header.Get returns it.
FirstValues(header) == [name \in DOMAIN header |-> header[name][1]]

\* The headers map fetchURL builds from resp.Header.
JoinedHeaders(header) == [name \in DOMAIN header |-> Join(header[name], 1)]

\* A read that keeps what arrived and drops the stream's error.
ReadAllIgnoringError(stream, limit) ==
  [err |-> FALSE,
   bytes |-> IF Len(stream.bytes) >= limit THEN SubSeq(stream.bytes, 1, limit) ELSE stream.bytes]

\* A read that refuses a body longer than the limit, as http.MaxBytesReader
\* does.
ReadAllRejectingOverflow(stream, limit) ==
  IF Len(stream.bytes) > limit
    THEN [err |-> TRUE, bytes |-> << >>]
  ELSE [err |-> stream.fails, bytes |-> stream.bytes]

\* io.ReadAll(io.LimitReader(resp.Body, limit)) on a body stream that
\* yields `bytes` and then ends, with an error when `fails`: the reader stops
\* asking once it has `limit` bytes, so an error past the limit is never seen.
ReadAllLimited(stream, limit) ==
  IF Len(stream.bytes) >= limit
    THEN [err |-> FALSE, bytes |-> SubSeq(stream.bytes, 1, limit)]
  ELSE [err |-> stream.fails, bytes |-> stream.bytes]

\* An OutputPayload with the body in both body fields.
MixedBodyFields(url, startTime, responseTime, statusCode, header, bodyBytes) ==
  [ZeroPayload EXCEPT !.URL = url,
                      !.Headers = MarshalStringMap(JoinedHeaders(header)),
                      !.ResponseTime = responseTime,
                      !.RequestTime = startTime,
                      !.StatusCode = statusCode,
                      !.ResponseJson = bodyBytes,
                      !.ResponseBody = bodyBytes]

\* The OutputPayload fetchURL returns for a response.
BuildOutput(url, startTime, responseTime, statusCode, header, bodyBytes) ==
  LET base == [ZeroPayload EXCEPT !.URL = url,
                                  !.Headers = MarshalStringMap(JoinedHeaders(header)),
                                  !.ResponseTime = responseTime,
                                  !.RequestTime = startTime,
                                  !.StatusCode = statusCode]
  IN IF Valid(bodyBytes) THEN [base EXCEPT !.ResponseJson = bodyBytes]
     ELSE [base EXCEPT !.ResponseBody = bodyBytes]

----------------------------------------------------------------------------
(* The inputs: what the push subscription, the fetched server and the     *)
(* process environment can present to the program                          *)

\* The longest response body of the exhaustive part of ResponseBodies.
MaxBodyLen == 2

\* The cap on the captured body, io.LimitReader's limit: 10*1024*1024 bytes
\* in fetchURL, scaled down to the sizes of the bodies here.
BodyLimit == 12

\* How many requests http.Client sends, following redirects, before
\* client.Do gives up: 10 in net/http, scaled down.
MaxRedirects == 2

\* http.Client.Timeout, 10 * time.Second, in milliseconds.
TimeoutMs == 10000

\* http.StatusOK
StatusOK == 200

\* The push envelope around a base64 blob.
Envelope(data) ==
  << "{", "\"", "m", "e", "s", "s", "a", "g", "e", "\"", ":", "{", "\"", "d", "a", "t", "a", "\"", ":", "\"" >>
  \o data \o << "\"", "}", "}" >>

EnvelopeData ==
  {
    \* not base64
    << "n", "o", "t", "-", "b", "a", "s", "e", "6", "4", "!" >>,
    \* the empty blob
    << >>,
    \* base64 of the byte FF
    << "/", "w", "=", "=" >>,
    \* base64 with its padding missing
    << "e", "3", "0" >>,
    \* base64 of not json
    << "b", "m", "9", "0", "I", "G", "p", "z", "b", "2", "4", "=" >>,
    \* base64 of {"url":5}
    << "e", "y", "J", "1", "c", "m", "w", "i", "O", "j", "V", "9" >>,
    \* base64 of {}
    << "e", "3", "0", "=" >>,
    \* base64 of {"url":""}
    << "e", "y", "J", "1", "c", "m", "w", "i", "O", "i", "I", "i", "f", "Q", "=", "=" >>,
    \* base64 of {"url":"/rel"}
    << "e", "y", "J", "1", "c", "m", "w", "i", "O", "i", "I", "v", "c", "m", "V", "s", "I", "n", "0", "=" >>,
    \* base64 of {"url":"ftp://a"}
    << "e", "y", "J", "1", "c", "m", "w", "i", "O", "i", "J", "m", "d", "H", "A", "6", "L", "y", "9", "h", "I", "n", "0", "=" >>,
    \* base64 of {"url":"HTTP://a"}
    << "e", "y", "J", "1", "c", "m", "w", "i", "O", "i", "J", "I", "V", "F", "R", "Q", "O", "i", "8", "v", "Y", "S", "J", "9" >>,
    \* base64 of {"url":"http://a b"}
    << "e", "y", "J", "1", "c", "m", "w", "i", "O", "i", "J", "o", "d", "H", "R", "w", "O", "i", "8", "v", "Y", "S", "B", "i", "I", "n", "0", "=" >>,
    \* base64 of {"url":"http://a/%zz"}
    << "e", "y", "J", "1", "c", "m", "w", "i", "O", "i", "J", "o", "d", "H", "R", "w", "O", "i", "8", "v", "Y", "S", "8", "l", "e", "n", "o", "i", "f", "Q", "=", "=" >>,
    \* base64 of {"url":"http://"}
    << "e", "y", "J", "1", "c", "m", "w", "i", "O", "i", "J", "o", "d", "H", "R", "w", "O", "i", "8", "v", "I", "n", "0", "=" >>,
    \* base64 of {"url":"http://a"}
    << "e", "y", "J", "1", "c", "m", "w", "i", "O", "i", "J", "o", "d", "H", "R", "w", "O", "i", "8", "v", "Y", "S", "J", "9" >>,
    \* base64 of {"URL":"https://a/x"}
    << "e", "y", "J", "V", "U", "k", "w", "i", "O", "i", "J", "o", "d", "H", "R", "w", "c", "z", "o", "v", "L", "2", "E", "v", "e", "C", "J", "9" >>
  }

\* Request bodies: not JSON, JSON of the wrong shape, and envelopes.
InboundBodies ==
  { << >>,
    << "n", "o", "t", " ", "j", "s", "o", "n" >>,
    << "n", "u", "l", "l" >>,
    << "{", "}" >>,
    << "[", "]" >>,
    << "{", "\"", "m", "e", "s", "s", "a", "g", "e", "\"", ":", "{", "\"", "d", "a", "t", "a", "\"", ":", "5", "}", "}" >> }
  \cup {Envelope(d) : d \in EnvelopeData}

Methods == {"POST", "GET"}

\* Every string over alphabet of length n / of length at most n.
RECURSIVE StringsOfLen(_, _)
StringsOfLen(alphabet, n) ==
  IF n = 0 THEN {<< >>}
  ELSE {Append(s, c) : s \in StringsOfLen(alphabet, n - 1), c \in alphabet}

RECURSIVE StringsUpTo(_, _)
StringsUpTo(alphabet, n) ==
  IF n = 0 THEN {<< >>} ELSE StringsOfLen(alphabet, n) \cup StringsUpTo(alphabet, n - 1)

Ones(n) == [k \in 1..n |-> "1"]

\* Response bodies: every string of "1", "[", "]" up to MaxBodyLen; JSON
\* values of every kind, plain text, white space and bytes that are not
\* UTF-8; and bodies one byte longer than the cap.
ResponseBodies ==
  StringsUpTo({"1", "[", "]"}, MaxBodyLen)
  \cup { << "{", "\"", "a", "\"", ":", "1", "}" >>,
         << "t", "r", "u", "e" >>,
         << "f", "a", "l", "s", "e" >>,
         << "n", "u", "l", "l" >>,
         << "-", "1", ".", "5", "e", "3" >>,
         << "\"", "a", "\\", "\"", "b", "\"" >>,
         << "{", "\"", "a", "\"", ":", "1" >>,
         << "B", "o", "d", "y", " ", "t", "e", "x", "t" >>,
         << " " >>,
         << "\"", "xFF", "\"" >>,
         << "xFF" >> }
  \cup { Ones(BodyLimit + 1),
         Ones(BodyLimit) \o << "x" >>,
         << "[" >> \o Ones(BodyLimit - 1) \o << "]" >> }

\* A response body as a stream: its bytes, then the end or a read error.
BodyStreams == {[bytes |-> b, fails |-> f] : b \in ResponseBodies, f \in BOOLEAN}

\* resp.Header: no header at all, or single-valued ones (one of them with
\* characters the encoder escapes) and a multi-valued one.
ResponseHeaders ==
  { << >>,
    (<< "C", "o", "n", "t", "e", "n", "t", "-", "T", "y", "p", "e" >> :> << << "t", "e", "x", "t", "/", "p", "l", "a", "i", "n" >> >>)
    @@ (<< "S", "e", "t", "-", "C", "o", "o", "k", "i", "e" >> :> << << "a", "=", "1" >>, << "b", "=", "2" >> >>)
    @@ (<< "E", "t", "a", "g" >> :> << << "\"", "a", "<", "\"" >> >>) }

\* Status codes of a final (not redirecting) response.
StatusCodes == {200, 404}

\* The milliseconds from dispatch to the response's headers.
ResponseTimes == {0, TimeoutMs - 1}

\* The process environment: each variable unset (empty) or set.
Environments ==
  [RESPONSE_PUBSUB : {"", "responses"}, GOOGLE_CLOUD_PROJECT : {"", "project"}]

\* The inbound calls the model follows.
Calls == {1}

----------------------------------------------------------------------------
(* The state *)

VARIABLES
  pc,       \* pc[i]: where call i's handler stands
  req,      \* req[i]: the inbound request: method, body, whether reading it fails
  msgData,  \* msgData[i]: msg.Message.Data, once the envelope is parsed
  data,     \* data[i]: the decoded data, once msg.Message.Data is decoded
  url,      \* url[i]: input.URL, once the payload is parsed
  fetch,    \* fetch[i]: fetchURL's locals: startTime, and the response once it arrived
  gets,     \* gets[i]: the HTTP GETs call i has put on the wire
  output,   \* output[i]: the OutputPayload fetchURL returned
  message,  \* message[i]: the argument of publishMessage
  log,      \* log[i]: the lines call i wrote to the log, in order
  sent,     \* sent[i]: the messages call i handed to topic.Publish, in order
  status,   \* status[i]: the statuses call i wrote with w.WriteHeader, in order
  env,      \* the process environment
  now       \* the clock: the next instant time.Now() returns

vars == << pc, req, msgData, data, url, fetch, gets, output, message, log, sent, status, env, now >>

NoRequest == [method |-> "", body |-> << >>, readErr |-> FALSE]

NoFetch ==
  [startTime |-> 0, responseTime |-> 0, statusCode |-> 0, header |-> << >>,
   stream |-> [bytes |-> << >>, fails |-> FALSE]]

\* A line of the log: the format it was printed with, its string argument,
\* and the JSON it carries (NoJSON when it carries none).
LogLine(format, text, json) == [format |-> format, text |-> text, json |-> json]

Init ==
  /\ pc = [i \in Calls |-> "idle"]
  /\ req = [i \in Calls |-> NoRequest]
  /\ msgData = [i \in Calls |-> << >>]
  /\ data = [i \in Calls |-> << >>]
  /\ url = [i \in Calls |-> << >>]
  /\ fetch = [i \in Calls |-> NoFetch]
  /\ gets = [i \in Calls |-> 0]
  /\ output = [i \in Calls |-> ZeroPayload]
  /\ message = [i \in Calls |-> ZeroPayload]
  /\ log = [i \in Calls |-> << >>]
  /\ sent = [i \in Calls |-> << >>]
  /\ status = [i \in Calls |-> << >>]
  /\ env \in Environments
  /\ now = 1

----------------------------------------------------------------------------
(* pubSubHandler *)

\* The push subscription delivers a request: the server calls the handler.
Receive(i) ==
  /\ pc[i] = "idle"
  /\ \E method \in Methods, body \in InboundBodies, readErr \in BOOLEAN :
       req' = [req EXCEPT ![i] = [method |-> method, body |-> body, readErr |-> readErr]]
  /\ pc' = [pc EXCEPT ![i] = "CheckMethod"]
  /\ UNCHANGED << msgData, data, url, fetch, gets, output, message, log, sent, status, env, now >>

\* log.Printf(line); publishErrorMessage(errorMsg, u): the error payload is
\* stamped with time.Now() and handed to publishMessage.
publishErrorMessage(i, line, errorMsg, u) ==
  /\ log' = [log EXCEPT ![i] = Append(@, line)]
  /\ message' = [message EXCEPT ![i] = ErrorPayload(errorMsg, u, now)]
  /\ now' = now + 1
  /\ pc' = [pc EXCEPT ![i] = "publishMessage"]

\* A handler that turns a method other than POST away with 405 and
\* publishes nothing.
CheckMethodRejects(i) ==
  /\ pc[i] = "CheckMethod"
  /\ IF req[i].method # "POST"
       THEN /\ status' = [status EXCEPT ![i] = Append(@, 405)]
            /\ pc' = [pc EXCEPT ![i] = "Acknowledged"]
       ELSE /\ pc' = [pc EXCEPT ![i] = "ReadAll"]
            /\ UNCHANGED status
  /\ UNCHANGED << req, msgData, data, url, fetch, gets, output, message, log, sent, env, now >>

\* if r.Method != http.MethodPost: the method is the argument of the log line.
CheckMethod(i) ==
  /\ pc[i] = "CheckMethod"
  /\ IF req[i].method # "POST"
       THEN publishErrorMessage(i, LogLine("Invalid request method: %s", req[i].method, NoJSON), E_method, << >>)
       ELSE /\ pc' = [pc EXCEPT ![i] = "ReadAll"]
            /\ UNCHANGED << message, log, now >>
  /\ UNCHANGED << req, msgData, data, url, fetch, gets, output, sent, status, env >>

\* body, err := io.ReadAll(r.Body)
ReadRequestBody(i) ==
  /\ pc[i] = "ReadAll"
  /\ IF req[i].readErr
       THEN publishErrorMessage(i, LogLine("Error reading request body: %v", << >>, NoJSON), E_body, << >>)
       ELSE /\ pc' = [pc EXCEPT ![i] = "UnmarshalEnvelope"]
            /\ UNCHANGED << message, log, now >>
  /\ UNCHANGED << req, msgData, data, url, fetch, gets, output, sent, status, env >>

\* A handler that reports a bad envelope with the error of the payload parse.
UnmarshalEnvelopeMislabelled(i) ==
  /\ pc[i] = "UnmarshalEnvelope"
  /\ \E r \in {UnmarshalPubSubMessage(req[i].body)} :
       IF r.err
         THEN /\ publishErrorMessage(i, LogLine("Error unmarshalling JSON: %v. Body: %s", req[i].body, NoJSON),
                                     E_input, req[i].body)
              /\ UNCHANGED msgData
         ELSE /\ msgData' = [msgData EXCEPT ![i] = r.Data]
              /\ pc' = [pc EXCEPT ![i] = "decodeBase64"]
              /\ UNCHANGED << message, log, now >>
  /\ UNCHANGED << req, data, url, fetch, gets, output, sent, status, env >>

\* json.Unmarshal(body, &msg)
UnmarshalEnvelope(i) ==
  /\ pc[i] = "UnmarshalEnvelope"
  /\ \E r \in {UnmarshalPubSubMessage(req[i].body)} :
       IF r.err
         THEN /\ publishErrorMessage(i, LogLine("Error unmarshalling JSON: %v. Body: %s", req[i].body, NoJSON),
                                     E_envelope, req[i].body)
              /\ UNCHANGED msgData
         ELSE /\ msgData' = [msgData EXCEPT ![i] = r.Data]
              /\ pc' = [pc EXCEPT ![i] = "decodeBase64"]
              /\ UNCHANGED << message, log, now >>
  /\ UNCHANGED << req, data, url, fetch, gets, output, sent, status, env >>

\* A handler that goes on with whatever the decoder returned.
DecodeDataLenient(i) ==
  /\ pc[i] = "decodeBase64"
  /\ \E r \in {decodeBase64(msgData[i])} : data' = [data EXCEPT ![i] = r.data]
  /\ pc' = [pc EXCEPT ![i] = "UnmarshalInput"]
  /\ UNCHANGED << req, msgData, url, fetch, gets, output, message, log, sent, status, env, now >>

\* data, err := decodeBase64(msg.Message.Data)
DecodeData(i) ==
  /\ pc[i] = "decodeBase64"
  /\ \E r \in {decodeBase64(msgData[i])} :
       IF r.err
         THEN /\ publishErrorMessage(i, LogLine("Error decoding data: %v. Data: %s", msgData[i], NoJSON),
                                     E_decode, msgData[i])
              /\ UNCHANGED data
         ELSE /\ data' = [data EXCEPT ![i] = r.data]
              /\ pc' = [pc EXCEPT ![i] = "UnmarshalInput"]
              /\ UNCHANGED << message, log, now >>
  /\ UNCHANGED << req, msgData, url, fetch, gets, output, sent, status, env >>

\* A handler that goes on with whatever the payload parse left in input.
UnmarshalInputLenient(i) ==
  /\ pc[i] = "UnmarshalInput"
  /\ \E r \in {UnmarshalInputPayload(data[i])} : url' = [url EXCEPT ![i] = r.URL]
  /\ pc' = [pc EXCEPT ![i] = "isValidURL"]
  /\ UNCHANGED << req, msgData, data, fetch, gets, output, message, log, sent, status, env, now >>

\* A handler whose input is a variable of the package: every call in flight
\* sees the url parsed last.
UnmarshalInputShared(i) ==
  /\ pc[i] = "UnmarshalInput"
  /\ \E r \in {UnmarshalInputPayload(data[i])} :
       IF r.err
         THEN /\ publishErrorMessage(i, LogLine("Error unmarshalling input JSON: %v. Data: %s", data[i], NoJSON),
                                     E_input, data[i])
              /\ UNCHANGED url
         ELSE /\ url' = [j \in DOMAIN url |-> r.URL]
              /\ pc' = [pc EXCEPT ![i] = "isValidURL"]
              /\ UNCHANGED << message, log, now >>
  /\ UNCHANGED << req, msgData, data, fetch, gets, output, sent, status, env >>

\* json.Unmarshal([]byte(data), &input)
UnmarshalInput(i) ==
  /\ pc[i] = "UnmarshalInput"
  /\ \E r \in {UnmarshalInputPayload(data[i])} :
       IF r.err
         THEN /\ publishErrorMessage(i, LogLine("Error unmarshalling input JSON: %v. Data: %s", data[i], NoJSON),
                                     E_input, data[i])
              /\ UNCHANGED url
         ELSE /\ url' = [url EXCEPT ![i] = r.URL]
              /\ pc' = [pc EXCEPT ![i] = "isValidURL"]
              /\ UNCHANGED << message, log, now >>
  /\ UNCHANGED << req, msgData, data, fetch, gets, output, sent, status, env >>

\* if !isValidURL(input.URL)
ValidateURL(i) ==
  /\ pc[i] = "isValidURL"
  /\ IF ~isValidURL(url[i])
       THEN publishErrorMessage(i, LogLine("Invalid URL: %s", url[i], NoJSON), E_url, url[i])
       ELSE /\ pc' = [pc EXCEPT ![i] = "NewRequest"]
            /\ UNCHANGED << message, log, now >>
  /\ UNCHANGED << req, msgData, data, url, fetch, gets, output, sent, status, env >>

----------------------------------------------------------------------------
(* fetchURL, and the handler's answer to its error *)

\* fetchURL returned (nil, err): the handler logs and publishes the error.
FetchFailed(i) ==
  /\ publishErrorMessage(i, LogLine("Error fetching URL %s: %v", url[i], NoJSON), E_fetch, url[i])
  /\ UNCHANGED << req, msgData, data, url, gets, output, sent, status, env >>

\* req, err := http.NewRequest("GET", url, nil)
NewRequest(i) ==
  /\ pc[i] = "NewRequest"
  /\ IF NewRequestErr(url[i])
       THEN FetchFailed(i)
       ELSE /\ pc' = [pc EXCEPT ![i] = "Do"]
            /\ UNCHANGED << req, msgData, data, url, gets, output, message, log, sent, status, env, now >>
  /\ UNCHANGED fetch

\* startTime := time.Now(); client.Do(req) is entered and waits for a
\* connection to the host, while other calls run.
Dispatch(i) ==
  /\ pc[i] = "Do"
  /\ fetch' = [fetch EXCEPT ![i].startTime = now]
  /\ now' = now + 1
  /\ pc' = [pc EXCEPT ![i] = "Connect"]
  /\ UNCHANGED << req, msgData, data, url, gets, output, message, log, sent, status, env >>

\* client.Do has its connection and writes the GET.  A URL without a host
\* has nowhere to connect to: nothing is written and Do can only fail.
WriteRequest(i) ==
  /\ pc[i] = "Connect"
  /\ Host(url[i]) # << >>
  /\ gets' = [gets EXCEPT ![i] = @ + 1]
  /\ pc' = [pc EXCEPT ![i] = "AwaitResponse"]
  /\ UNCHANGED << req, msgData, data, url, fetch, output, message, log, sent, status, env, now >>

\* client := &http.Client{Timeout: 10 * time.Second}
ClientTimeout == TimeoutMs

\* client.Do fails.  Before a GET was written: the URL has no host, the
\* host cannot be resolved or connected to.  After: the connection breaks,
\* the answer is not HTTP, a redirect leads to a host that cannot be
\* reached, ...
DoFail(i) ==
  /\ pc[i] \in {"Connect", "AwaitResponse"}
  /\ FetchFailed(i)
  /\ UNCHANGED fetch

\* The client's timer fires before the headers arrived, be it while Do
\* still waits for its connection.
DoTimeout(i) ==
  /\ pc[i] \in {"Connect", "AwaitResponse"}
  /\ ClientTimeout > 0
  /\ FetchFailed(i)
  /\ UNCHANGED fetch

\* The server answers with a redirect: the client follows it with another
\* GET, until it has sent MaxRedirects requests and gives up with an error.
DoRedirect(i) ==
  /\ pc[i] = "AwaitResponse"
  /\ IF gets[i] >= MaxRedirects
       THEN FetchFailed(i)
       ELSE /\ gets' = [gets EXCEPT ![i] = @ + 1]
            /\ UNCHANGED << pc, req, msgData, data, url, output, message, log, sent, status, env, now >>
  /\ UNCHANGED fetch

\* The headers of the final response arrive: responseTime is taken, the
\* body is still to be read.
DoResponse(i) ==
  /\ pc[i] = "AwaitResponse"
  /\ \E statusCode \in StatusCodes, header \in ResponseHeaders,
        stream \in BodyStreams, responseTime \in ResponseTimes :
       fetch' = [fetch EXCEPT ![i] = [startTime |-> @.startTime, responseTime |-> responseTime,
                                      statusCode |-> statusCode, header |-> header, stream |-> stream]]
  /\ pc' = [pc EXCEPT ![i] = "ReadBody"]
  /\ UNCHANGED << req, msgData, data, url, gets, output, message, log, sent, status, env, now >>

\* A fetch that remembers the urls it fetched: a url another call already
\* has an output for is reported as 304, without its body.
ReadResponseBodyDedup(i) ==
  /\ pc[i] = "ReadBody"
  /\ \E r \in {ReadAllLimited(fetch[i].stream, BodyLimit)} :
     IF r.err
       THEN FetchFailed(i)
       ELSE /\ output' = [output EXCEPT ![i] =
                 IF \E j \in DOMAIN output : j # i /\ output[j] # ZeroPayload /\ output[j].URL = url[i]
                   THEN BuildOutput(url[i], fetch[i].startTime, fetch[i].responseTime,
                                    304, fetch[i].header, << >>)
                   ELSE BuildOutput(url[i], fetch[i].startTime, fetch[i].responseTime,
                                    fetch[i].statusCode, fetch[i].header, r.bytes)]
            /\ pc' = [pc EXCEPT ![i] = "MarshalOutput"]
            /\ UNCHANGED << req, msgData, data, url, gets, message, log, sent, status, env, now >>
  /\ UNCHANGED fetch

\* bodyBytes, err := io.ReadAll(io.LimitReader(resp.Body, limit)), then the
\* output is filled in and returned.
ReadResponseBody(i) ==
  /\ pc[i] = "ReadBody"
  /\ \E r \in {ReadAllLimited(fetch[i].stream, BodyLimit)} :
     IF r.err
       THEN FetchFailed(i)
       ELSE /\ output' = [output EXCEPT ![i] =
                 BuildOutput(url[i], fetch[i].startTime, fetch[i].responseTime,
                             fetch[i].statusCode, fetch[i].header, r.bytes)]
            /\ pc' = [pc EXCEPT ![i] = "MarshalOutput"]
            /\ UNCHANGED << req, msgData, data, url, gets, message, log, sent, status, env, now >>
  /\ UNCHANGED fetch

\* The client's timer fires while the body is being read.
ReadBodyTimeout(i) ==
  /\ pc[i] = "ReadBody"
  /\ ClientTimeout > 0
  /\ FetchFailed(i)
  /\ UNCHANGED fetch

\* outputJSON, err := json.Marshal(output); log it; publishMessage(output)
MarshalOutput(i) ==
  /\ pc[i] = "MarshalOutput"
  /\ \E outputJSON \in {MarshalPayload(output[i])} :
     IF outputJSON.err
       THEN publishErrorMessage(i, LogLine("Error marshalling output JSON: %v", << >>, NoJSON), E_marshal, url[i])
       ELSE /\ log' = [log EXCEPT ![i] = Append(@, LogLine("Processed Response: %s", << >>, outputJSON))]
            /\ message' = [message EXCEPT ![i] = output[i]]
            /\ pc' = [pc EXCEPT ![i] = "publishMessage"]
            /\ UNCHANGED now
  /\ UNCHANGED << req, msgData, data, url, fetch, gets, output, sent, status, env >>

----------------------------------------------------------------------------
(* publishMessage *)

\* A publisher that does not look at the environment.
AlwaysPublish(e) == "publish"

\* What publishMessage does with the marshalled message, by the environment.
PublishRoute(e) ==
  IF e.RESPONSE_PUBSUB = "" THEN "log"
  ELSE IF e.GOOGLE_CLOUD_PROJECT = "" THEN "logNoProject"
  ELSE "publish"

PublishLine(i) == LogLine("Publish Message: %s", << >>, MarshalPayload(message[i]))

\* publishMessage up to the construction of the client: marshal, then the
\* two environment lookups.
PublishMessage(i) ==
  /\ pc[i] = "publishMessage"
  /\ IF MarshalPayload(message[i]).err
       THEN /\ log' = [log EXCEPT ![i] =
                 Append(@, LogLine("Error marshalling message for publishing: %v", << >>, NoJSON))]
            /\ pc' = [pc EXCEPT ![i] = "WriteHeader"]
       ELSE IF PublishRoute(env) = "log"
         THEN /\ log' = [log EXCEPT ![i] = Append(@, PublishLine(i))]
              /\ pc' = [pc EXCEPT ![i] = "WriteHeader"]
       ELSE IF PublishRoute(env) = "logNoProject"
         THEN /\ log' = [log EXCEPT ![i] =
                   @ \o << LogLine("GOOGLE_CLOUD_PROJECT env variable not set, cannot publish to PubSub",
                                   << >>, NoJSON),
                           PublishLine(i) >>]
              /\ pc' = [pc EXCEPT ![i] = "WriteHeader"]
       ELSE /\ pc' = [pc EXCEPT ![i] = "NewClient"]
            /\ UNCHANGED log
  /\ UNCHANGED << req, msgData, data, url, fetch, gets, output, message, sent, status, env, now >>

\* pubsub.NewClient fails.
NewClientFail(i) ==
  /\ pc[i] = "NewClient"
  /\ log' = [log EXCEPT ![i] =
       @ \o << LogLine("Error creating PubSub client: %v", << >>, NoJSON), PublishLine(i) >>]
  /\ pc' = [pc EXCEPT ![i] = "WriteHeader"]
  /\ UNCHANGED << req, msgData, data, url, fetch, gets, output, message, sent, status, env, now >>

\* pubsub.NewClient succeeds.
NewClientOk(i) ==
  /\ pc[i] = "NewClient"
  /\ pc' = [pc EXCEPT ![i] = "Publish"]
  /\ UNCHANGED << req, msgData, data, url, fetch, gets, output, message, log, sent, status, env, now >>

\* A publisher that does not wait for the result of the publish.
TopicPublishAsync(i) ==
  /\ pc[i] = "Publish"
  /\ sent' = [sent EXCEPT ![i] =
       Append(@, [topic |-> env.RESPONSE_PUBSUB, Data |-> MarshalPayload(message[i]), type |-> "request"])]
  /\ pc' = [pc EXCEPT ![i] = "WriteHeader"]
  /\ UNCHANGED << req, msgData, data, url, fetch, gets, output, message, log, status, env, now >>

\* result := topic.Publish(ctx, &pubsub.Message{Data: messageJSON, ...})
TopicPublish(i) ==
  /\ pc[i] = "Publish"
  /\ sent' = [sent EXCEPT ![i] =
       Append(@, [topic |-> env.RESPONSE_PUBSUB, Data |-> MarshalPayload(message[i]), type |-> "request"])]
  /\ pc' = [pc EXCEPT ![i] = "Get"]
  /\ UNCHANGED << req, msgData, data, url, fetch, gets, output, message, log, status, env, now >>

\* The publish is tried again after it failed.
GetFailRetries(i) ==
  /\ pc[i] = "Get"
  /\ log' = [log EXCEPT ![i] = Append(@, LogLine("Error publishing message to PubSub: %v", << >>, NoJSON))]
  /\ pc' = [pc EXCEPT ![i] = IF Len(sent[i]) < 2 THEN "Publish" ELSE "WriteHeader"]
  /\ UNCHANGED << req, msgData, data, url, fetch, gets, output, message, sent, status, env, now >>

\* id, err := result.Get(ctx) returns an error: it is logged, nothing more.
GetFail(i) ==
  /\ pc[i] = "Get"
  /\ log' = [log EXCEPT ![i] = Append(@, LogLine("Error publishing message to PubSub: %v", << >>, NoJSON))]
  /\ pc' = [pc EXCEPT ![i] = "WriteHeader"]
  /\ UNCHANGED << req, msgData, data, url, fetch, gets, output, message, sent, status, env, now >>

\* result.Get(ctx) returns the server's id of the message.
GetOk(i) ==
  /\ pc[i] = "Get"
  /\ log' = [log EXCEPT ![i] = Append(@, LogLine("Published message with ID: %s", << >>, NoJSON))]
  /\ pc' = [pc EXCEPT ![i] = "WriteHeader"]
  /\ UNCHANGED << req, msgData, data, url, fetch, gets, output, message, sent, status, env, now >>

----------------------------------------------------------------------------
(* The acknowledgment *)

\* A handler that answers a method other than POST with 405.
StatusByMethod(i) == IF req[i].method # "POST" THEN 405 ELSE StatusOK

\* The status the handler answers with.
AckStatus(i) == StatusOK

\* w.WriteHeader(http.StatusOK), the last statement on every path.
WriteHeader(i) ==
  /\ pc[i] = "WriteHeader"
  /\ status' = [status EXCEPT ![i] = Append(@, AckStatus(i))]
  /\ pc' = [pc EXCEPT ![i] = "Acknowledged"]
  /\ UNCHANGED << req, msgData, data, url, fetch, gets, output, message, log, sent, env, now >>

----------------------------------------------------------------------------
(* The specifications *)

\* The steps the handler's goroutine takes by itself.
HandlerStep(i) ==
  \/ CheckMethod(i)
  \/ UnmarshalEnvelope(i)
  \/ DecodeData(i)
  \/ UnmarshalInput(i)
  \/ ValidateURL(i)
  \/ NewRequest(i)
  \/ Dispatch(i)
  \/ MarshalOutput(i)
  \/ PublishMessage(i)
  \/ TopicPublish(i)
  \/ WriteHeader(i)

Step(i) ==
  \/ Receive(i)
  \/ CheckMethod(i)
  \/ ReadRequestBody(i)
  \/ UnmarshalEnvelope(i)
  \/ DecodeData(i)
  \/ UnmarshalInput(i)
  \/ ValidateURL(i)
  \/ NewRequest(i)
  \/ Dispatch(i)
  \/ WriteRequest(i)
  \/ DoFail(i)
  \/ DoTimeout(i)
  \/ DoRedirect(i)
  \/ DoResponse(i)
  \/ ReadResponseBody(i)
  \/ ReadBodyTimeout(i)
  \/ MarshalOutput(i)
  \/ PublishMessage(i)
  \/ NewClientFail(i)
  \/ NewClientOk(i)
  \/ TopicPublish(i)
  \/ GetFail(i)
  \/ GetOk(i)
  \/ WriteHeader(i)

\* One inbound call, from its delivery to its acknowledgment.
Next == \E i \in Calls : Step(i)

Spec == Init /\ [][Next]_vars

\* The same, with the progress the runtime gives: the handler's goroutine
\* keeps running, the client's timer fires unless the fetch ends before it,
\* and the calls into the Pub/Sub client return.  Nothing makes the request
\* body arrive: the server is started without a read timeout, so
\* io.ReadAll(r.Body) waits for the peer as long as the peer takes.
Fairness(i) ==
  /\ WF_vars(HandlerStep(i))
  /\ WF_vars(DoTimeout(i) \/ ReadBodyTimeout(i))
  /\ WF_vars(NewClientFail(i) \/ NewClientOk(i))
  /\ WF_vars(GetFail(i) \/ GetOk(i))

LiveSpec == Spec /\ \A i \in Calls : Fairness(i)


----------------------------------------------------------------------------
(* Two calls in flight at once: the server runs pubSubHandler in a goroutine *)
(* of its own for each request                                             *)

Pair == {1, 2}

\* base64 of {"url":"http://a"}, of {"URL":"https://a/x"} and of
\* {"url":"ftp://a"}
PairData ==
  { << "e", "y", "J", "1", "c", "m", "w", "i", "O", "i", "J", "o", "d", "H", "R", "w", "O", "i", "8", "v", "Y", "S", "J", "9" >>,
    << "e", "y", "J", "V", "U", "k", "w", "i", "O", "i", "J", "o", "d", "H", "R", "w", "c", "z", "o", "v", "L", "2", "E", "v", "e", "C", "J", "9" >>,
    << "e", "y", "J", "1", "c", "m", "w", "i", "O", "i", "J", "m", "d", "H", "A", "6", "L", "y", "9", "h", "I", "n", "0", "=" >> }

\* What the fetched server answers with here: a JSON body or a text body.
PairStreams == {[bytes |-> b, fails |-> FALSE] : b \in {<< "1" >>, << "]" >>}}

\* The project is set; the topic is set or not.
PairEnvironments == {e \in Environments : e.GOOGLE_CLOUD_PROJECT # ""}

PairInit ==
  /\ pc = [i \in Pair |-> "idle"]
  /\ req = [i \in Pair |-> NoRequest]
  /\ msgData = [i \in Pair |-> << >>]
  /\ data = [i \in Pair |-> << >>]
  /\ url = [i \in Pair |-> << >>]
  /\ fetch = [i \in Pair |-> NoFetch]
  /\ gets = [i \in Pair |-> 0]
  /\ output = [i \in Pair |-> ZeroPayload]
  /\ message = [i \in Pair |-> ZeroPayload]
  /\ log = [i \in Pair |-> << >>]
  /\ sent = [i \in Pair |-> << >>]
  /\ status = [i \in Pair |-> << >>]
  /\ env \in PairEnvironments
  /\ now = 1

\* The push subscription delivers a request.
PairReceive(i) ==
  /\ pc[i] = "idle"
  /\ \E d \in PairData :
       req' = [req EXCEPT ![i] = [method |-> "POST", body |-> Envelope(d), readErr |-> FALSE]]
  /\ pc' = [pc EXCEPT ![i] = "CheckMethod"]
  /\ UNCHANGED << msgData, data, url, fetch, gets, output, message, log, sent, status, env, now >>

\* The headers of the final response arrive, at once.
PairResponse(i) ==
  /\ pc[i] = "AwaitResponse"
  /\ \E stream \in PairStreams :
       fetch' = [fetch EXCEPT ![i] = [startTime |-> @.startTime, responseTime |-> 0,
                                      statusCode |-> StatusOK, header |-> << >>, stream |-> stream]]
  /\ pc' = [pc EXCEPT ![i] = "ReadBody"]
  /\ UNCHANGED << req, msgData, data, url, gets, output, message, log, sent, status, env, now >>

PairStep(i) ==
  \/ PairReceive(i)
  \/ CheckMethod(i)
  \/ ReadRequestBody(i)
  \/ UnmarshalEnvelope(i)
  \/ DecodeData(i)
  \/ UnmarshalInput(i)
  \/ ValidateURL(i)
  \/ NewRequest(i)
  \/ Dispatch(i)
  \/ WriteRequest(i)
  \/ DoFail(i)
  \/ DoTimeout(i)
  \/ DoRedirect(i)
  \/ PairResponse(i)
  \/ ReadResponseBody(i)
  \/ ReadBodyTimeout(i)
  \/ MarshalOutput(i)
  \/ PublishMessage(i)
  \/ NewClientFail(i)
  \/ NewClientOk(i)
  \/ TopicPublish(i)
  \/ GetFail(i)
  \/ GetOk(i)
  \/ WriteHeader(i)

\* Any interleaving of the steps of the two calls.
PairNext == \E i \in Pair : PairStep(i)

PairSpec == PairInit /\ [][PairNext]_vars

----------------------------------------------------------------------------
(* What an observer sees of a call: the outcomes it published *)

\* The positions of the log lines publishMessage falls back to.
PublishLines(i) == {k \in 1..Len(log[i]) : log[i][k].format = "Publish Message: %s"}

\* The outcomes call i handed to topic.Publish or wrote as its log fallback.
Published(i) ==
  {sent[i][k].Data : k \in 1..Len(sent[i])} \cup {log[i][k].json : k \in PublishLines(i)}

\* The keys of a serialized outcome.
Keys(o) == {o.keys[k] : k \in 1..Len(o.keys)}

\* The formats of the lines call i logged.
Formats(i) == {log[i][k].format : k \in 1..Len(log[i])}

\* publishMessage has returned.
Returned(i) == pc[i] \in {"WriteHeader", "Acknowledged"}

\* The payload of call i was parsed: input.URL is known.
Decoded(i) ==
  /\ pc[i] \notin {"idle", "CheckMethod", "ReadAll", "UnmarshalEnvelope", "decodeBase64", "UnmarshalInput"}
  /\ message[i].Error \notin {E_method, E_body, E_envelope, E_decode, E_input}

\* fetchURL returned an output: the fetch succeeded.
Fetched(i) == output[i] # ZeroPayload

\* The body bytes fetchURL captured.
Captured(i) == ReadAllLimited(fetch[i].stream, BodyLimit).bytes

----------------------------------------------------------------------------
(* C1 *)

\* C1: whatever the method, the body and the stage that fails, the only
\* status the handler writes is 200 OK, once, as it finishes.
C1_OnlyStatusOK ==
  \A i \in Calls :
    /\ \A k \in 1..Len(status[i]) : status[i][k] = StatusOK
    /\ Len(status[i]) <= 1
    /\ pc[i] = "Acknowledged" => status[i] = << StatusOK >>

\* A call that was not a POST, whose publish failed too, and was answered 200.
C1_Witness ==
  /\ pc[1] = "Acknowledged"
  /\ req[1].method = "GET"
  /\ message[1].Error = E_method
  /\ "Error publishing message to PubSub: %v" \in Formats(1)
  /\ status[1] = << StatusOK >>

----------------------------------------------------------------------------
(* C2 *)

\* C2: every call the handler received is eventually acknowledged, on the
\* success path and on every failure branch.  A call whose request body
\* never arrives stays in io.ReadAll(r.Body) and is never acknowledged.
C2_EventuallyAcknowledged ==
  \A i \in Calls : (pc[i] = "CheckMethod") ~> (pc[i] = "Acknowledged")

----------------------------------------------------------------------------
(* C3 *)

\* C3: a call hands its outcome to topic.Publish or writes it as the log
\* fallback exactly once: never twice, and once by the time publishMessage
\* returned; what it published is the handler's outcome, also when the
\* publish failed.
C3_ExactlyOnePublish ==
  \A i \in Calls :
    /\ Len(sent[i]) + Cardinality(PublishLines(i)) <= 1
    /\ Returned(i) =>
         /\ Len(sent[i]) + Cardinality(PublishLines(i)) = 1
         /\ Published(i) = {MarshalPayload(message[i])}

\* A call whose one publish failed, acknowledged.
C3_Witness ==
  /\ pc[1] = "Acknowledged"
  /\ "Error publishing message to PubSub: %v" \in Formats(1)
  /\ Len(sent[1]) = 1
  /\ PublishLines(1) = {}

----------------------------------------------------------------------------
(* C4 *)

\* The stages of fetchURL and of the success path behind it.
FetchStages == {"NewRequest", "Do", "Connect", "AwaitResponse", "ReadBody", "MarshalOutput"}

\* C4: a decoded request whose url begins with neither http:// nor https://
\* never enters fetchURL and sends no GET; its outcome is the "Invalid URL"
\* failure carrying that url, and that is what it publishes.
C4_InvalidURLNotFetched ==
  \A i \in Calls :
    (Decoded(i) /\ ~HasPrefix(url[i], P_http) /\ ~HasPrefix(url[i], P_https)) =>
      /\ pc[i] \notin FetchStages
      /\ gets[i] = 0
      /\ fetch[i] = NoFetch
      /\ output[i] = ZeroPayload
      /\ pc[i] # "isValidURL" => (message[i].Error = E_url /\ message[i].URL = url[i])
      /\ \A o \in Published(i) :
           "error" \in Keys(o) /\ o.val.Error = E_url /\ o.val.URL = url[i]
      /\ Returned(i) => Published(i) # {}

\* An acknowledged call for ftp://a: published as a failure, nothing fetched.
C4_Witness ==
  /\ pc[1] = "Acknowledged"
  /\ url[1] = << "f", "t", "p", ":", "/", "/", "a" >>
  /\ Decoded(1)
  /\ gets[1] = 0
  /\ \E o \in Published(1) : o.val.Error = E_url /\ o.val.URL = url[1]

----------------------------------------------------------------------------
(* C5 *)

\* C5: a published outcome with an error carries only url, error and
\* requestTime in its serialized form; one without carries no error.
C5_ShapedOutcomes ==
  \A i \in Calls : \A o \in Published(i) :
    IF o.val.Error # << >>
      THEN Keys(o) \subseteq {"url", "error", "requestTime"}
      ELSE "error" \notin Keys(o)

----------------------------------------------------------------------------
(* C6 *)

\* C6: when the fetch succeeded and the captured body is valid JSON, the
\* outcome's ResponseJson is the captured bytes and its ResponseBody is
\* empty; the published outcome has the responseJson key, no responseBody
\* key, and its responseJson reads back as the captured bytes (byte for byte
\* when the body is ASCII, and with the bytes that are not UTF-8 replaced
\* by U+FFFD otherwise).
C6_JsonBodyVerbatim ==
  \A i \in Calls :
    (Fetched(i) /\ Valid(Captured(i))) =>
      /\ output[i].ResponseJson = Captured(i)
      /\ output[i].ResponseBody = << >>
      /\ \A o \in Published(i) :
           /\ "responseJson" \in Keys(o)
           /\ "responseBody" \notin Keys(o)
           /\ o.val.ResponseJson = CoerceUTF8(Captured(i))
           /\ (\A k \in 1..Len(Captured(i)) : Ord[Captured(i)[k]] < 128)
                => o.val.ResponseJson = Captured(i)
      /\ Returned(i) => Published(i) # {}

\* An acknowledged call whose fetched body was the JSON string "a\"b".
C6_Witness ==
  /\ pc[1] = "Acknowledged"
  /\ Fetched(1)
  /\ Captured(1) = << "\"", "a", "\\", "\"", "b", "\"" >>
  /\ \E o \in Published(1) : o.val.ResponseJson = Captured(1) /\ "responseBody" \notin Keys(o)

----------------------------------------------------------------------------
(* C7 *)

\* C7: when the fetch succeeded and the captured body is not valid JSON,
\* the empty body included, the published outcome has the responseBody key
\* with the body text and no responseJson key; every published success
\* outcome has exactly one of the two keys.
C7_ExactlyOneBodyField ==
  \A i \in Calls :
    Fetched(i) =>
      \A o \in Published(i) :
        /\ ("responseJson" \in Keys(o)) # ("responseBody" \in Keys(o))
        /\ ~Valid(Captured(i)) =>
             /\ "responseBody" \in Keys(o)
             /\ "responseJson" \notin Keys(o)
             /\ o.val.ResponseBody = CoerceUTF8(Captured(i))

----------------------------------------------------------------------------
(* C8 *)

\* The handler is past the fetch: it is publishing or has published.
PastFetch(i) == pc[i] \in {"publishMessage", "NewClient", "Publish", "Get", "WriteHeader", "Acknowledged"}

\* C8: when the fetch failed, the outcome is the "Error fetching URL"
\* failure with the target url and nothing of a response: no output was
\* returned, and every published outcome is that failure, without headers,
\* body or a status taken from the response.  A body whose read fails below
\* the cap, after the headers arrived, is such a failure.
C8_FetchFailureIsFailure ==
  \A i \in Calls :
    /\ message[i].Error = E_fetch =>
         /\ message[i] = ErrorPayload(E_fetch, url[i], message[i].RequestTime)
         /\ output[i] = ZeroPayload
         /\ \A o \in Published(i) :
              /\ "error" \in Keys(o)
              /\ o.val.Error = E_fetch
              /\ o.val.URL = url[i]
              /\ Keys(o) \cap {"headers", "responseBody", "responseJson"} = {}
              /\ o.val.StatusCode = 0
              /\ o.val.ResponseTime = 0
         /\ Returned(i) => Published(i) # {}
    /\ (PastFetch(i) /\ fetch[i].stream.fails /\ Len(fetch[i].stream.bytes) < BodyLimit) =>
         message[i].Error = E_fetch

\* An acknowledged call whose body read failed after a 200 with headers:
\* published as the fetch failure.
C8_Witness ==
  /\ pc[1] = "Acknowledged"
  /\ fetch[1].statusCode = 200
  /\ fetch[1].header # << >>
  /\ fetch[1].stream.fails
  /\ fetch[1].stream.bytes # << >>
  /\ message[1].Error = E_fetch
  /\ \E o \in Published(1) : o.val.Error = E_fetch /\ o.val.URL = url[1]

----------------------------------------------------------------------------
(* C9 *)

\* C9: when the client cannot be constructed or the publish fails, the
\* serialized outcome is among the lines of the log by the time
\* publishMessage returned.
C9_OutcomeLoggedOnPublishFailure ==
  \A i \in Calls :
    (Returned(i) /\ Formats(i) \cap {"Error creating PubSub client: %v",
                                     "Error publishing message to PubSub: %v"} # {}) =>
      \E k \in 1..Len(log[i]) : log[i][k].json = MarshalPayload(message[i])

----------------------------------------------------------------------------
(* C10 *)

\* C10: with RESPONSE_PUBSUB or GOOGLE_CLOUD_PROJECT unset, publishMessage
\* hands nothing to Pub/Sub and constructs no client; it writes the
\* serialized outcome, unchanged, as one "Publish Message" line, logs no
\* error, and the call is acknowledged with 200 as ever.
C10_LogFallback ==
  (env.RESPONSE_PUBSUB = "" \/ env.GOOGLE_CLOUD_PROJECT = "") =>
    \A i \in Calls :
      /\ sent[i] = << >>
      /\ pc[i] \notin {"NewClient", "Publish", "Get"}
      /\ Formats(i) \cap {"Error creating PubSub client: %v",
                          "Error publishing message to PubSub: %v",
                          "Error marshalling message for publishing: %v",
                          "Published message with ID: %s"} = {}
      /\ Cardinality(PublishLines(i)) <= 1
      /\ Returned(i) =>
           /\ Cardinality(PublishLines(i)) = 1
           /\ \A k \in PublishLines(i) : log[i][k].json = MarshalPayload(message[i])
      /\ pc[i] = "Acknowledged" => status[i] = << StatusOK >>

\* An acknowledged call with no topic configured: a fetched outcome, logged.
C10_Witness ==
  /\ env.RESPONSE_PUBSUB = ""
  /\ pc[1] = "Acknowledged"
  /\ Fetched(1)
  /\ message[1] = output[1]
  /\ sent[1] = << >>
  /\ Cardinality(PublishLines(1)) = 1

----------------------------------------------------------------------------
(* C11 *)

\* The envelope of call i was parsed: msg.Message.Data is known.
EnvelopeParsed(i) ==
  /\ pc[i] \notin {"idle", "CheckMethod", "ReadAll", "UnmarshalEnvelope"}
  /\ message[i].Error \notin {E_method, E_body, E_envelope}

\* C11: when the blob of a parsed envelope is not valid base64, the payload
\* is never parsed, the url never validated and nothing fetched; the outcome
\* is the "Error decoding data" failure carrying the blob as it came, that is
\* what is published, and the call is answered 200.
C11_BadBase64IsFailure ==
  \A i \in Calls :
    (EnvelopeParsed(i) /\ decodeBase64(msgData[i]).err) =>
      /\ pc[i] \notin {"UnmarshalInput", "isValidURL"} \cup FetchStages
      /\ data[i] = << >>
      /\ url[i] = << >>
      /\ gets[i] = 0
      /\ fetch[i] = NoFetch
      /\ output[i] = ZeroPayload
      /\ pc[i] # "decodeBase64" => message[i] = ErrorPayload(E_decode, msgData[i], message[i].RequestTime)
      /\ \A o \in Published(i) :
           "error" \in Keys(o) /\ o.val.Error = E_decode /\ o.val.URL = msgData[i]
      /\ Returned(i) => Published(i) # {}
      /\ pc[i] = "Acknowledged" => status[i] = << StatusOK >>

\* An acknowledged call whose blob was not-base64!, published as a failure.
C11_Witness ==
  /\ pc[1] = "Acknowledged"
  /\ msgData[1] = << "n", "o", "t", "-", "b", "a", "s", "e", "6", "4", "!" >>
  /\ status[1] = << StatusOK >>
  /\ \E o \in Published(1) : o.val.Error = E_decode /\ o.val.URL = msgData[1]

----------------------------------------------------------------------------
(* C12 *)

\* C12: a call whose method is not POST reads and decodes nothing and
\* fetches nothing; its outcome is the "Invalid request method" failure,
\* published exactly once, and the only status written is 200.
C12_NotPostIsFailure ==
  \A i \in Calls :
    (pc[i] # "idle" /\ req[i].method # "POST") =>
      /\ pc[i] \notin {"ReadAll", "UnmarshalEnvelope", "decodeBase64", "UnmarshalInput", "isValidURL"}
                      \cup FetchStages
      /\ msgData[i] = << >> /\ data[i] = << >> /\ url[i] = << >>
      /\ gets[i] = 0
      /\ fetch[i] = NoFetch
      /\ output[i] = ZeroPayload
      /\ pc[i] # "CheckMethod" => message[i] = ErrorPayload(E_method, << >>, message[i].RequestTime)
      /\ Len(sent[i]) + Cardinality(PublishLines(i)) <= 1
      /\ \A o \in Published(i) : "error" \in Keys(o) /\ o.val.Error = E_method
      /\ Returned(i) => Len(sent[i]) + Cardinality(PublishLines(i)) = 1
      /\ \A k \in 1..Len(status[i]) : status[i][k] = StatusOK
      /\ pc[i] = "Acknowledged" => status[i] = << StatusOK >>

\* An acknowledged GET that carried a good envelope: one failure sent, 200.
C12_Witness ==
  /\ pc[1] = "Acknowledged"
  /\ req[1].method = "GET"
  /\ UnmarshalPubSubMessage(req[1].body).Data # << >>
  /\ Len(sent[1]) = 1
  /\ sent[1][1].Data.val.Error = E_method
  /\ status[1] = << StatusOK >>

----------------------------------------------------------------------------
(* C13 *)

\* The blob of call i was decoded: data is known.
BlobDecoded(i) ==
  /\ pc[i] \notin {"idle", "CheckMethod", "ReadAll", "UnmarshalEnvelope", "decodeBase64"}
  /\ message[i].Error \notin {E_method, E_body, E_envelope, E_decode}

\* C13: when the decoded payload does not unmarshal into an InputPayload,
\* the url is never validated and nothing is fetched; the outcome is the
\* "Error unmarshalling input JSON" failure carrying the decoded text, and
\* that is what is published (byte for byte when the text is ASCII, with
\* the bytes that are not UTF-8 replaced by U+FFFD otherwise).  An envelope
\* without a blob, or with an empty one, is such a payload.
C13_BadPayloadIsFailure ==
  \A i \in Calls :
    /\ (BlobDecoded(i) /\ UnmarshalInputPayload(data[i]).err) =>
         /\ pc[i] \notin {"isValidURL"} \cup FetchStages
         /\ url[i] = << >>
         /\ gets[i] = 0
         /\ fetch[i] = NoFetch
         /\ output[i] = ZeroPayload
         /\ pc[i] # "UnmarshalInput" => message[i] = ErrorPayload(E_input, data[i], message[i].RequestTime)
         /\ \A o \in Published(i) :
              /\ "error" \in Keys(o)
              /\ o.val.Error = E_input
              /\ o.val.URL = CoerceUTF8(data[i])
              /\ (\A k \in 1..Len(data[i]) : Ord[data[i][k]] < 128) => o.val.URL = data[i]
         /\ Returned(i) => Published(i) # {}
    /\ (EnvelopeParsed(i) /\ msgData[i] = << >>) =>
         /\ pc[i] \notin {"isValidURL"} \cup FetchStages
         /\ gets[i] = 0
         /\ Returned(i) => (message[i].Error = E_input /\ Published(i) # {})

\* An acknowledged call whose payload was {"url":5}: the failure carries it.
C13_Witness ==
  /\ pc[1] = "Acknowledged"
  /\ data[1] = << "{", "\"", "u", "r", "l", "\"", ":", "5", "}" >>
  /\ gets[1] = 0
  /\ \E o \in Published(1) : o.val.Error = E_input /\ o.val.URL = data[1]

----------------------------------------------------------------------------
(* C14 *)

\* The separator of the values of a header.
CommaSpace == << ",", " " >>

\* C14: in the outcome of a successful fetch, Headers is the text of a JSON
\* object with one member for each name of resp.Header and no other, whose
\* value is the header's values in their order with ", " between them (the
\* value itself for a single one); the published outcome carries that text.
C14_HeadersJoined ==
  \A i \in Calls :
    Fetched(i) =>
      /\ \A h \in {ParseJSON(output[i].Headers)} :
           /\ h.ok
           /\ h.val.t = "obj"
           /\ {h.val.m[k].k : k \in 1..Len(h.val.m)} = DOMAIN fetch[i].header
           /\ Len(h.val.m) = Cardinality(DOMAIN fetch[i].header)
           /\ \A k \in 1..Len(h.val.m) :
                \A values \in {fetch[i].header[h.val.m[k].k]} :
                  /\ h.val.m[k].v = JStr(Join(values, 1))
                  /\ Len(values) = 1 => h.val.m[k].v.s = values[1]
                  /\ Len(values) = 2 => h.val.m[k].v.s = values[1] \o CommaSpace \o values[2]
      /\ \A o \in Published(i) : "headers" \in Keys(o) /\ o.val.Headers = output[i].Headers

\* An acknowledged call whose response had two Set-Cookie values.
C14_Witness ==
  /\ pc[1] = "Acknowledged"
  /\ Fetched(1)
  /\ Cardinality(DOMAIN fetch[1].header) = 3
  /\ \E name \in DOMAIN fetch[1].header : Len(fetch[1].header[name]) = 2
  /\ \E o \in Published(1) : o.val.Headers = output[1].Headers

----------------------------------------------------------------------------
(* C15 *)

\* The errors of the checks before the fetch.
EarlyErrors == {E_method, E_body, E_envelope, E_decode, E_input, E_url}

\* Calls i and j were given the same answer by the fetched server.
SameAnswer(i, j) ==
  /\ fetch[i].statusCode = fetch[j].statusCode
  /\ fetch[i].header = fetch[j].header
  /\ fetch[i].stream = fetch[j].stream

\* C15: two calls with the same envelope whose fetches were given the same
\* answer have outputs, and published outcomes, that agree on url, status
\* code, headers and on both body fields; two calls with the same envelope
\* that fail before the fetch fail with the same error and url.
C15_SameEnvelopeSameOutcome ==
  \A i \in Pair : \A j \in Pair \ {i} :
    (pc[i] # "idle" /\ req[i] = req[j]) =>
      /\ (Fetched(i) /\ Fetched(j) /\ SameAnswer(i, j)) =>
           /\ output[i].URL = output[j].URL
           /\ output[i].StatusCode = output[j].StatusCode
           /\ output[i].Headers = output[j].Headers
           /\ output[i].ResponseJson = output[j].ResponseJson
           /\ output[i].ResponseBody = output[j].ResponseBody
           /\ \A o \in Published(i) : \A q \in Published(j) :
                /\ Keys(o) = Keys(q)
                /\ o.val.URL = q.val.URL
                /\ o.val.StatusCode = q.val.StatusCode
                /\ o.val.ResponseJson = q.val.ResponseJson
                /\ o.val.ResponseBody = q.val.ResponseBody
      /\ (PastFetch(i) /\ PastFetch(j) /\ message[i].Error \in EarlyErrors) =>
           (message[j].Error = message[i].Error /\ message[j].URL = message[i].URL)

\* Two acknowledged calls with the same envelope and the same answer, whose
\* published outcomes differ in requestTime only.
C15_Witness ==
  /\ pc[1] = "Acknowledged" /\ pc[2] = "Acknowledged"
  /\ req[1] = req[2]
  /\ Fetched(1) /\ Fetched(2) /\ SameAnswer(1, 2)
  /\ \E o \in Published(1) : \E q \in Published(2) :
       /\ o.val.RequestTime # q.val.RequestTime
       /\ Keys(o) = Keys(q)
       /\ o.val.ResponseJson = q.val.ResponseJson
       /\ o.val.ResponseJson # << >>

----------------------------------------------------------------------------
(* C16 *)

\* What the checks before the fetch make of a request, run by itself: the
\* error of the first check that fails and the text it reports, or no error
\* and the url to fetch.
AfterInput(u, text) ==
  IF u.err THEN [Error |-> E_input, URL |-> text]
  ELSE IF ~isValidURL(u.URL) THEN [Error |-> E_url, URL |-> u.URL]
  ELSE [Error |-> << >>, URL |-> u.URL]

AfterBlob(d, blob) ==
  IF d.err THEN [Error |-> E_decode, URL |-> blob]
  ELSE AfterInput(UnmarshalInputPayload(d.data), d.data)

AfterEnvelope(m, body) ==
  IF m.err THEN [Error |-> E_envelope, URL |-> body]
  ELSE AfterBlob(decodeBase64(m.Data), m.Data)

EarlyOutcome(r) ==
  IF r.method # "POST" THEN [Error |-> E_method, URL |-> << >>]
  ELSE IF r.readErr THEN [Error |-> E_body, URL |-> << >>]
  ELSE AfterEnvelope(UnmarshalPubSubMessage(r.body), r.body)

\* All that the handler holds for call i.
Locals(i) ==
  << pc[i], req[i], msgData[i], data[i], url[i], fetch[i], gets[i], output[i], message[i],
     log[i], sent[i], status[i] >>

\* C16: with two calls in flight, interleaved in any way, no step of the
\* program touches what it holds for more than one call, and the
\* environment is never written; the output of a call is built from its own
\* url and response, it publishes its own outcome only, exactly once, and
\* is answered 200; once both are acknowledged the outcome of each is the
\* one its own request and response give when run alone.
C16_CallsIndependent ==
  /\ [](\A i \in Pair :
          /\ Fetched(i) =>
               output[i] = BuildOutput(url[i], fetch[i].startTime, fetch[i].responseTime,
                                       fetch[i].statusCode, fetch[i].header, Captured(i))
          /\ Published(i) \subseteq {MarshalPayload(message[i])}
          /\ pc[i] = "Acknowledged" =>
               /\ status[i] = << StatusOK >>
               /\ Len(sent[i]) + Cardinality(PublishLines(i)) = 1
          /\ (\A j \in Pair : pc[j] = "Acknowledged") =>
               \A e \in {EarlyOutcome(req[i])} :
                 IF Fetched(i)
                   THEN e.Error = << >> /\ output[i].URL = e.URL /\ message[i] = output[i]
                   ELSE message[i] = ErrorPayload(IF e.Error # << >> THEN e.Error ELSE E_fetch,
                                                  e.URL, message[i].RequestTime))
  /\ [][/\ env' = env
        /\ \A i \in Pair : \A j \in Pair \ {i} : Locals(i)' = Locals(i) \/ Locals(j)' = Locals(j)]_vars

\* Two acknowledged calls for different urls with different answers, each
\* having sent its own outcome.
C16_Witness ==
  /\ pc[1] = "Acknowledged" /\ pc[2] = "Acknowledged"
  /\ Fetched(1) /\ Fetched(2)
  /\ url[1] # url[2]
  /\ fetch[1].stream # fetch[2].stream
  /\ Len(sent[1]) = 1 /\ Len(sent[2]) = 1
  /\ sent[1][1].Data.val.URL = url[1] /\ sent[2][1].Data.val.URL = url[2]
  /\ sent[1][1].Data.val.ResponseJson = fetch[1].stream.bytes
  /\ sent[2][1].Data.val.ResponseBody = fetch[2].stream.bytes

----------------------------------------------------------------------------
(* C17 *)

\* C17: the body of an output is never longer than the cap; for a response
\* body longer than the cap it is the first cap bytes, put in ResponseJson
\* or ResponseBody by the validity of those bytes; and the read of such a
\* body always ends in an output, never in the fetch failure.
C17_BodyCapped ==
  /\ [](\A i \in Calls :
          Fetched(i) =>
            /\ Len(output[i].ResponseJson) <= BodyLimit
            /\ Len(output[i].ResponseBody) <= BodyLimit
            /\ Len(fetch[i].stream.bytes) > BodyLimit =>
                 \A head \in {SubSeq(fetch[i].stream.bytes, 1, BodyLimit)} :
                   /\ output[i].Error = << >>
                   /\ output[i].StatusCode = fetch[i].statusCode
                   /\ IF Valid(head)
                        THEN output[i].ResponseJson = head /\ output[i].ResponseBody = << >>
                        ELSE output[i].ResponseBody = head /\ output[i].ResponseJson = << >>)
  /\ [][\A i \in Calls :
          (Len(fetch[i].stream.bytes) > BodyLimit /\ ReadResponseBody(i)) =>
            (pc'[i] = "MarshalOutput" /\ output'[i] # ZeroPayload /\ message'[i] = message[i])]_vars

\* An acknowledged call whose response body was a JSON array one byte longer
\* than the cap: published as a success with the cut text in responseBody.
C17_Witness ==
  /\ pc[1] = "Acknowledged"
  /\ Fetched(1)
  /\ Len(fetch[1].stream.bytes) = BodyLimit + 1
  /\ Valid(fetch[1].stream.bytes)
  /\ \E o \in Published(1) :
       /\ o.val.Error = << >>
       /\ o.val.ResponseBody = SubSeq(fetch[1].stream.bytes, 1, BodyLimit)
       /\ "responseJson" \notin Keys(o)

----------------------------------------------------------------------------
(* C18 *)

\* C18: a failure goes straight to the publisher: when the outcome has an
\* error the handler is in publishMessage or past it, the stages behind the
\* failed one have left nothing, and no later step runs one of them.  The
\* status is written last: by then the outcome was published or logged,
\* once, and a publish that was started has returned its result.
C18_ShortCircuit ==
  /\ [](\A i \in Calls :
          /\ message[i].Error # << >> =>
               /\ PastFetch(i)
               /\ output[i] = ZeroPayload
               /\ message[i].Error \in {E_method, E_body, E_envelope} => msgData[i] = << >>
               /\ message[i].Error \in {E_method, E_body, E_envelope, E_decode} => data[i] = << >>
               /\ message[i].Error \in {E_method, E_body, E_envelope, E_decode, E_input} => url[i] = << >>
               /\ message[i].Error \in EarlyErrors => (gets[i] = 0 /\ fetch[i] = NoFetch)
          /\ PastFetch(i) => (message[i].Error # << >> \/ message[i] = output[i])
          /\ status[i] # << >> =>
               /\ pc[i] = "Acknowledged"
               /\ Len(sent[i]) + Cardinality(PublishLines(i)) = 1
               /\ sent[i] # << >> =>
                    Formats(i) \cap {"Published message with ID: %s",
                                     "Error publishing message to PubSub: %v"} # {})
  /\ [][\A i \in Calls :
          /\ message[i].Error # << >> =>
               << msgData[i], data[i], url[i], fetch[i], gets[i], output[i], message[i] >>'
                 = << msgData[i], data[i], url[i], fetch[i], gets[i], output[i], message[i] >>
          /\ status'[i] # status[i] =>
               (Len(sent[i]) + Cardinality(PublishLines(i)) = 1 /\ message'[i] = message[i])]_vars

\* An acknowledged call that failed at the decode: nothing parsed or
\* fetched, the failure sent and its result received before the status.
C18_Witness ==
  /\ pc[1] = "Acknowledged"
  /\ message[1].Error = E_decode
  /\ msgData[1] # << >> /\ data[1] = << >> /\ url[1] = << >> /\ gets[1] = 0
  /\ Len(sent[1]) = 1
  /\ "Published message with ID: %s" \in Formats(1)
  /\ status[1] = << StatusOK >>

----------------------------------------------------------------------------
(* C19 *)

\* C19: a call puts at most one GET on the wire, and only for a decoded
\* request whose url passed isValidURL.
C19_AtMostOneGet ==
  \A i \in Calls :
    /\ gets[i] <= 1
    /\ gets[i] > 0 => (Decoded(i) /\ isValidURL(url[i]))

----------------------------------------------------------------------------
(* C20 *)

\* The error strings publishErrorMessage is called with.
ErrorStrings == {E_method, E_body, E_envelope, E_decode, E_input, E_url, E_fetch, E_marshal}

\* C20: once publishMessage returned, the error of the outcome is that of
\* the first check the request fails, in the handler's order, with the text
\* that check reports; when the request passes them all it is "Error
\* fetching URL" unless the fetch gave an output, and only then is it empty.  What is published says the same: the error key is there, with
\* one of the fixed strings, exactly when no output was fetched.
C20_ErrorNamesFirstFailure ==
  \A i \in Calls :
    PastFetch(i) =>
      /\ Returned(i) =>
           \A e \in {EarlyOutcome(req[i])} :
             IF e.Error # << >>
               THEN message[i].Error = e.Error /\ message[i].URL = e.URL /\ ~Fetched(i)
               ELSE message[i].Error = (IF Fetched(i) THEN << >> ELSE E_fetch) /\ message[i].URL = e.URL
      /\ Fetched(i) = (message[i].Error = << >>)
      /\ ~Fetched(i) => message[i].Error \in ErrorStrings
      /\ \A o \in Published(i) :
           /\ o.val.Error = message[i].Error
           /\ ("error" \in Keys(o)) = ~Fetched(i)
           /\ "error" \in Keys(o) => o.val.Error \in ErrorStrings

\* An acknowledged POST with an unreadable body that was not an envelope
\* either: the error is that of the read, the earlier check.
C20_Witness ==
  /\ pc[1] = "Acknowledged"
  /\ req[1].method = "POST"
  /\ req[1].readErr
  /\ UnmarshalPubSubMessage(req[1].body).err
  /\ \E o \in Published(1) : o.val.Error = E_body

====
